---- MODULE Spec2Model ----
(***************************************************************************)
(* A model of the lox bytecode compiler (src/src/parser.c, chunk.c) and of *)
(* the stack virtual machine (src/unnamed/part_000, value.h).              *)
(*                                                                         *)
(* The compiler is a set of recursive operators over a parser record, one  *)
(* operator per C function.  The virtual machine is a state machine with   *)
(* one action per opcode handler of vm_execute.                            *)
(***************************************************************************)
EXTENDS Integers, Sequences, FiniteSets, TLC

(***************************************************************************)
(* Program constants.                                                      *)
(***************************************************************************)
UINT8_MAX == 255
UINT8_COUNT == 256
UINT16_MAX == 65535
CHUNK_CODEPAGE == 256

(***************************************************************************)
(* Bounds of the model.                                                    *)
(***************************************************************************)
\* frames the model's VM can hold (FRAMES_MAX of vm.h, scaled down)
FRAMES_MAX == 3
\* value slots of the model's VM stack (the stack array of vm_t, scaled down)
STACK_MAX == 6
\* operands of a generated expression source
MaxOperands == 3
\* statements and braces of a generated source file
MaxItems == 4
\* host calls of set_global before a run
MaxHostCalls == 1
\* fragments of a source file given to the compiler
MaxFragments == 3

(***************************************************************************)
(* Values (value.h).                                                       *)
(*                                                                         *)
(* Every value is a record of one shape.  A Number is an IEEE double       *)
(* abstracted to a signed rational (sign s, numerator n, denominator d),   *)
(* the two infinities and NaN; zero keeps its sign, so that +0.0 and -0.0  *)
(* are different bit patterns.  A string object is identified by its       *)
(* characters (strings are interned), a function by its name in the heap,  *)
(* a map by its index in the heap.                                         *)
(***************************************************************************)
VT_NIL == "VT_NIL"
VT_BOOL == "VT_BOOL"
VT_NUM == "VT_NUM"
VT_OBJ == "VT_OBJ"
VT_CFN == "VT_CFN"

OT_NONE == "-"
OT_STR == "OT_STR"
OT_FUN == "OT_FUN"
OT_MAP == "OT_MAP"

Blank == [type |-> VT_NIL, Bool |-> FALSE, k |-> "fin", s |-> 0, n |-> 0, d |-> 1,
          ot |-> OT_NONE, chars |-> <<>>, ref |-> "", id |-> 0]

VAL_NIL == Blank
VAL_TRUE == [Blank EXCEPT !.type = VT_BOOL, !.Bool = TRUE]
VAL_FALSE == [Blank EXCEPT !.type = VT_BOOL, !.Bool = FALSE]
VAL_BOOL(b) == [Blank EXCEPT !.type = VT_BOOL, !.Bool = b]

RECURSIVE GCD(_, _)
GCD(a, b) == IF b = 0 THEN a ELSE GCD(b, a % b)

\* the finite double (-1)^s * n / d, in lowest terms
Fin(s, n, d) ==
    LET g == GCD(n, d)
    IN [Blank EXCEPT !.type = VT_NUM, !.k = "fin", !.s = s, !.n = n \div g, !.d = d \div g]
Inf(s) == [Blank EXCEPT !.type = VT_NUM, !.k = "inf", !.s = s, !.n = 0, !.d = 1]
NaN == [Blank EXCEPT !.type = VT_NUM, !.k = "nan", !.s = 0, !.n = 0, !.d = 1]
\* VAL_NUM of an integer of the host
VAL_NUM(i) == IF i < 0 THEN Fin(1, -i, 1) ELSE Fin(0, i, 1)

VAL_STR(chars) == [Blank EXCEPT !.type = VT_OBJ, !.ot = OT_STR, !.chars = chars]
VAL_FUN(name) == [Blank EXCEPT !.type = VT_OBJ, !.ot = OT_FUN, !.ref = name]
VAL_MAP(i) == [Blank EXCEPT !.type = VT_OBJ, !.ot = OT_MAP, !.id = i]
VAL_CFN(name) == [Blank EXCEPT !.type = VT_CFN, !.ref = name]

AS_TYPE(v) == v.type
IS_NIL(v) == AS_TYPE(v) = VT_NIL
IS_BOOL(v) == AS_TYPE(v) = VT_BOOL
IS_NUM(v) == AS_TYPE(v) = VT_NUM
IS_OBJ(v) == AS_TYPE(v) = VT_OBJ
IS_CFN(v) == AS_TYPE(v) = VT_CFN
IS_STR(v) == IS_OBJ(v) /\ v.ot = OT_STR
IS_FUN(v) == IS_OBJ(v) /\ v.ot = OT_FUN
IS_MAP(v) == IS_OBJ(v) /\ v.ot = OT_MAP

\* Whether the 64 bits of the value's union, read as raw, are all zero:
\* Nil and false are zero-initialised, a double is all zero only as +0.0,
\* an object reference or a native function pointer is never null.
RawIsZero(v) ==
    CASE v.type = VT_NIL -> TRUE
      [] v.type = VT_BOOL -> ~v.Bool
      [] v.type = VT_NUM -> v.k = "fin" /\ v.n = 0 /\ v.s = 0
      [] OTHER -> FALSE

IS_FALSEY_signless(v) ==
    CASE v.type = VT_NIL -> TRUE
      [] v.type = VT_BOOL -> ~v.Bool
      [] v.type = VT_NUM -> v.k = "fin" /\ v.n = 0
      [] OTHER -> FALSE

\* IS_FALSEY(v) is !(bool)(v).raw
IS_FALSEY(v) == ~(~RawIsZero(v))

(***************************************************************************)
(* Double arithmetic of the handlers (the C operators + - * / < <= on      *)
(* double), with IEEE signed zeros, infinities and NaN.                    *)
(***************************************************************************)
Xor(a, b) == (a + b) % 2
\* the signed numerator of a finite number
SNum(a) == IF a.s = 1 THEN -a.n ELSE a.n
Abs(i) == IF i < 0 THEN -i ELSE i

NumNeg(a) == IF a.k = "nan" THEN NaN ELSE [a EXCEPT !.s = 1 - @]

NumAdd(a, b) ==
    CASE a.k = "nan" \/ b.k = "nan" -> NaN
      [] a.k = "inf" /\ b.k = "inf" -> IF a.s = b.s THEN a ELSE NaN
      [] a.k = "inf" -> a
      [] b.k = "inf" -> b
      [] OTHER ->
           LET num == SNum(a) * b.d + SNum(b) * a.d
           IN IF num = 0
              THEN Fin(IF a.n = 0 /\ b.n = 0 /\ a.s = 1 /\ b.s = 1 THEN 1 ELSE 0, 0, 1)
              ELSE Fin(IF num < 0 THEN 1 ELSE 0, Abs(num), a.d * b.d)

NumSub(a, b) == NumAdd(a, NumNeg(b))

NumMul(a, b) ==
    CASE a.k = "nan" \/ b.k = "nan" -> NaN
      [] a.k = "inf" /\ b.k = "fin" /\ b.n = 0 -> NaN
      [] b.k = "inf" /\ a.k = "fin" /\ a.n = 0 -> NaN
      [] a.k = "inf" \/ b.k = "inf" -> Inf(Xor(a.s, b.s))
      [] OTHER -> Fin(Xor(a.s, b.s), a.n * b.n, a.d * b.d)

NumDiv(a, b) ==
    CASE a.k = "nan" \/ b.k = "nan" -> NaN
      [] a.k = "inf" /\ b.k = "inf" -> NaN
      [] a.k = "inf" -> Inf(Xor(a.s, b.s))
      [] b.k = "inf" -> Fin(Xor(a.s, b.s), 0, 1)
      [] b.n = 0 -> IF a.n = 0 THEN NaN ELSE Inf(Xor(a.s, b.s))
      [] OTHER -> Fin(Xor(a.s, b.s), a.n * b.d, a.d * b.n)

NumLt(a, b) ==
    CASE a.k = "nan" \/ b.k = "nan" -> FALSE
      [] a.k = "inf" /\ b.k = "inf" -> a.s = 1 /\ b.s = 0
      [] a.k = "inf" -> a.s = 1
      [] b.k = "inf" -> b.s = 0
      [] OTHER -> SNum(a) * b.d < SNum(b) * a.d

NumEq(a, b) ==
    CASE a.k = "nan" \/ b.k = "nan" -> FALSE
      [] a.k = "inf" \/ b.k = "inf" -> a.k = b.k /\ a.s = b.s
      [] OTHER -> SNum(a) * b.d = SNum(b) * a.d

NumLe(a, b) == NumLt(a, b) \/ NumEq(a, b)

\* a bool read through AS_BOOL and converted to char, int or double
BoolInt(v) == IF v.Bool THEN 1 ELSE 0

(***************************************************************************)
(* Opcodes.  A chunk's code is a sequence of bytes; an opcode is the byte  *)
(* of its position in the dispatch table of vm_execute, the four long      *)
(* forms the compiler emits following the ones the interpreter handles.    *)
(***************************************************************************)
OPCODES == << "PRINT", "POP", "NIL", "TRUE", "FALSE", "CONST", "CALL", "RET",
              "NOT", "NEG", "EQ", "LT", "LE", "ADD", "SUB", "MUL", "DIV",
              "DEF", "GLD", "GST", "LD", "ST", "JMP", "JMPF",
              "MAP", "GET", "SET", "GETI", "SETI",
              "GLDL", "GSTL", "DEFL", "CONSTL" >>

\* the byte of an opcode
OP(name) == (CHOOSE i \in 1..Len(OPCODES) : OPCODES[i] = name) - 1

\* the opcodes vm_execute has a handler for
HANDLED == { "PRINT", "POP", "NIL", "TRUE", "FALSE", "CONST", "CALL", "RET",
             "NOT", "NEG", "EQ", "LT", "LE", "ADD", "SUB", "MUL", "DIV",
             "DEF", "GLD", "GST", "LD", "ST", "JMP", "JMPF",
             "MAP", "GET", "SET", "GETI", "SETI" }

\* the handler a byte dispatches to, "BAD" for a byte with none
Decode(byte) ==
    IF byte + 1 \in 1..Len(OPCODES) /\ OPCODES[byte + 1] \in HANDLED
    THEN OPCODES[byte + 1] ELSE "BAD"

(***************************************************************************)
(* Tokens (the lexer is external: a token stream ending in TOKEN_EOF).     *)
(***************************************************************************)
\* a token of fixed spelling: its lexeme is named after its kind
Tok(type) == [type |-> type, name |-> type, num |-> 0]
TokId(name) == [type |-> "TOKEN_IDENTIFIER", name |-> name, num |-> 0]
TokNum(i) == [type |-> "TOKEN_NUMBER", name |-> "", num |-> i]
TokStr(name) == [type |-> "TOKEN_STRING", name |-> name, num |-> 0]
TokErr(msg) == [type |-> "TOKEN_ERROR", name |-> msg, num |-> 0]
TokEOF == Tok("TOKEN_EOF")

(***************************************************************************)
(* Chunk (chunk.c).  code and lines hold the count entries written so far. *)
(***************************************************************************)
EmptyChunk == [count |-> 0, capacity |-> 0, code |-> <<>>, lines |-> <<>>,
               constants |-> <<>>]

chunk_emit_once(chunk, byte, ln, col) ==
    LET grown == IF chunk.count >= chunk.capacity /\ chunk.capacity = 0
                 THEN [chunk EXCEPT !.capacity = @ + CHUNK_CODEPAGE]
                 ELSE chunk
    IN [grown EXCEPT !.code = Append(@, byte),
                     !.lines = Append(@, ((ln % 65536) * 65536) + (col % 65536)),
                     !.count = @ + 1]

chunk_emit(chunk, byte, ln, col) ==
    LET grown == IF chunk.count >= chunk.capacity
                 THEN [chunk EXCEPT !.capacity = @ + CHUNK_CODEPAGE]
                 ELSE chunk
    IN [grown EXCEPT !.code = Append(@, byte),
                     !.lines = Append(@, ((ln % 65536) * 65536) + (col % 65536)),
                     !.count = @ + 1]

(***************************************************************************)
(* Parser and compiler state (struct _parser, struct _compiler).           *)
(*   toks, pos    the lexer: the token stream and the next token to scan   *)
(*   locals       locals[0 .. localCount-1], as a sequence                 *)
(*   errors       the messages written to stderr, in order                 *)
(*   marks        where in the code each construct was compiled (kept for  *)
(*                the properties; the compiler never reads it)             *)
(*   undefined    a call through a null parse function was made            *)
(***************************************************************************)
PREC_NONE == 0
PREC_ASSIGNMENT == 1
PREC_OR == 2
PREC_AND == 3
PREC_EQUALITY == 4
PREC_COMPARISON == 5
PREC_TERM == 6
PREC_FACTOR == 7
PREC_UNARY == 8
PREC_CALL == 9
PREC_PRIMARY == 10

Rule(prefix, infix, precedence) ==
    [prefix |-> prefix, infix |-> infix, precedence |-> precedence]

getRule_assign(type) ==
    CASE type = "TOKEN_EQUAL" -> Rule("NULL", "NULL", PREC_ASSIGNMENT)
      [] type = "TOKEN_LEFT_PAREN" -> Rule("grouping", "NULL", PREC_NONE)
      [] type = "TOKEN_MINUS" -> Rule("unary", "binary", PREC_TERM)
      [] type = "TOKEN_PLUS" -> Rule("NULL", "binary", PREC_TERM)
      [] type = "TOKEN_SLASH" -> Rule("NULL", "binary", PREC_FACTOR)
      [] type = "TOKEN_STAR" -> Rule("NULL", "binary", PREC_FACTOR)
      [] type = "TOKEN_BANG" -> Rule("unary", "NULL", PREC_NONE)
      [] type = "TOKEN_BANG_EQUAL" -> Rule("NULL", "binary", PREC_EQUALITY)
      [] type = "TOKEN_EQUAL_EQUAL" -> Rule("NULL", "binary", PREC_EQUALITY)
      [] type = "TOKEN_GREATER" -> Rule("NULL", "binary", PREC_COMPARISON)
      [] type = "TOKEN_GREATER_EQUAL" -> Rule("NULL", "binary", PREC_COMPARISON)
      [] type = "TOKEN_LESS" -> Rule("NULL", "binary", PREC_COMPARISON)
      [] type = "TOKEN_LESS_EQUAL" -> Rule("NULL", "binary", PREC_COMPARISON)
      [] type = "TOKEN_IDENTIFIER" -> Rule("variable", "NULL", PREC_NONE)
      [] type = "TOKEN_STRING" -> Rule("string", "NULL", PREC_NONE)
      [] type = "TOKEN_NUMBER" -> Rule("number", "NULL", PREC_NONE)
      [] type = "TOKEN_FALSE" -> Rule("literal", "NULL", PREC_NONE)
      [] type = "TOKEN_NIL" -> Rule("literal", "NULL", PREC_NONE)
      [] type = "TOKEN_TRUE" -> Rule("literal", "NULL", PREC_NONE)
      [] OTHER -> Rule("NULL", "NULL", PREC_NONE)

getRule(type) ==
    CASE type = "TOKEN_LEFT_PAREN" -> Rule("grouping", "NULL", PREC_NONE)
      [] type = "TOKEN_MINUS" -> Rule("unary", "binary", PREC_TERM)
      [] type = "TOKEN_PLUS" -> Rule("NULL", "binary", PREC_TERM)
      [] type = "TOKEN_SLASH" -> Rule("NULL", "binary", PREC_FACTOR)
      [] type = "TOKEN_STAR" -> Rule("NULL", "binary", PREC_FACTOR)
      [] type = "TOKEN_BANG" -> Rule("unary", "NULL", PREC_NONE)
      [] type = "TOKEN_BANG_EQUAL" -> Rule("NULL", "binary", PREC_EQUALITY)
      [] type = "TOKEN_EQUAL_EQUAL" -> Rule("NULL", "binary", PREC_EQUALITY)
      [] type = "TOKEN_GREATER" -> Rule("NULL", "binary", PREC_COMPARISON)
      [] type = "TOKEN_GREATER_EQUAL" -> Rule("NULL", "binary", PREC_COMPARISON)
      [] type = "TOKEN_LESS" -> Rule("NULL", "binary", PREC_COMPARISON)
      [] type = "TOKEN_LESS_EQUAL" -> Rule("NULL", "binary", PREC_COMPARISON)
      [] type = "TOKEN_IDENTIFIER" -> Rule("variable", "NULL", PREC_NONE)
      [] type = "TOKEN_STRING" -> Rule("string", "NULL", PREC_NONE)
      [] type = "TOKEN_NUMBER" -> Rule("number", "NULL", PREC_NONE)
      [] type = "TOKEN_FALSE" -> Rule("literal", "NULL", PREC_NONE)
      [] type = "TOKEN_NIL" -> Rule("literal", "NULL", PREC_NONE)
      [] type = "TOKEN_TRUE" -> Rule("literal", "NULL", PREC_NONE)
      [] OTHER -> Rule("NULL", "NULL", PREC_NONE)

Mark(kind, at, idx) == [kind |-> kind, at |-> at, idx |-> idx]

\* an entry of the parser's log (history): what the compiler did, in order
Ev(ev, name, n) == [ev |-> ev, name |-> name, n |-> n]
Logged(p, ev, name, n) == [p EXCEPT !.log = Append(@, Ev(ev, name, n))]

\* the parser and compiler as compile sets them up, before its first advance
initCompiler(toks) ==
    [toks |-> toks, pos |-> 1, current |-> TokEOF, previous |-> TokEOF,
     hadError |-> FALSE, panicMode |-> FALSE, errors |-> <<>>,
     chunk |-> EmptyChunk, locals |-> <<>>, scopeDepth |-> 0,
     marks |-> <<>>, undefined |-> FALSE, log |-> <<>>]

currentChunk(p) == p.chunk

errorAt_always(p, token, message) ==
    [Logged(p, "error", message, 0)
       EXCEPT !.panicMode = TRUE, !.errors = Append(@, message), !.hadError = TRUE]

errorAt(p, token, message) ==
    IF p.panicMode THEN Logged(p, "quiet", message, 0)
    ELSE [Logged(p, "error", message, 0)
            EXCEPT !.panicMode = TRUE, !.errors = Append(@, message), !.hadError = TRUE]

error(p, message) == errorAt(p, p.previous, message)
errorAtCurrent(p, message) == errorAt(p, p.current, message)

\* lexer_scan: the next token of the stream, TOKEN_EOF once it is exhausted
lexer_scan(p) == IF p.pos <= Len(p.toks) THEN p.toks[p.pos] ELSE TokEOF

\* parser.current = lexer_scan(parser.lexer)
scanned(p) ==
    [p EXCEPT !.current = lexer_scan(p), !.pos = IF p.pos <= Len(p.toks) THEN @ + 1 ELSE @]

RECURSIVE scanLoop(_)
scanLoop(p) ==
    IF lexer_scan(p).type # "TOKEN_ERROR" THEN scanned(p)
    ELSE scanLoop(errorAtCurrent(scanned(p), lexer_scan(p).name))

advance(p) == scanLoop([p EXCEPT !.previous = p.current])

consume(p, type, message) ==
    IF p.current.type = type THEN advance(p) ELSE errorAtCurrent(p, message)

check(p, type) == p.current.type = type

\* match(parser, type) returns check(p, type) and leaves the parser as matched(p, type)
matched(p, type) == IF check(p, type) THEN advance(p) ELSE p

emitByte(p, byte) == [p EXCEPT !.chunk = chunk_emit(@, byte % 256, 1, p.pos)]

emitBytes(p, byte1, byte2) == emitByte(emitByte(p, byte1), byte2)

emitReturn(p) == emitByte(p, OP("RET"))

\* arr_add(&constants, value, false): append, return the new index
makeConstant(p, value) ==
    LET constant == Len(p.chunk.constants)
        q == [p EXCEPT !.chunk.constants = Append(@, value)]
    IN IF constant > UINT16_MAX
       THEN [p |-> error(q, "Too many constants in one chunk."), index |-> 0]
       ELSE [p |-> q, index |-> constant]

CHANGE(op) ==
    CASE op = OP("GLD") -> OP("GLDL")
      [] op = OP("GST") -> OP("GSTL")
      [] op = OP("DEF") -> OP("DEFL")
      [] op = OP("CONST") -> OP("CONSTL")
      [] OTHER -> op

emitBytesAndConstLong_short(p, op, arg) == emitBytes(p, op, arg % 256)

emitBytesAndConstLong(p, op, arg) ==
    IF arg > UINT8_MAX
    THEN emitBytes(emitByte(p, CHANGE(op)), (arg \div 256) % 256, arg % 256)
    ELSE emitBytes(p, op, arg % 256)

emitConstant(p, value) ==
    LET c == makeConstant(p, value)
    IN emitBytesAndConstLong(c.p, OP("CONST"), c.index)

endCompiler(p) == emitReturn(p)

beginScope(p) == [Logged(p, "begin", "", Len(p.locals)) EXCEPT !.scopeDepth = @ + 1]

\* n calls of chunk_emit with the same byte and position: the capacity grows
\* by one page each time count has reached it
chunk_emit_times(chunk, byte, ln, col, n) ==
    [chunk EXCEPT
       !.capacity = IF chunk.count + n > @
                    THEN @ + CHUNK_CODEPAGE
                             * ((chunk.count + n - @ + CHUNK_CODEPAGE - 1) \div CHUNK_CODEPAGE)
                    ELSE @,
       !.code = @ \o [i \in 1..n |-> byte],
       !.lines = @ \o [i \in 1..n |-> ((ln % 65536) * 65536) + (col % 65536)],
       !.count = @ + n]

\* the locals the loop of endScope leaves: those up to the last one whose
\* depth does not exceed the scope depth
RECURSIVE lastKept(_, _, _)
lastKept_upper(r, p, lo, mid) == IF r # 0 THEN r ELSE lastKept(p, lo, mid)

lastKept(p, lo, hi) ==
    IF lo > hi THEN 0
    ELSE IF lo = hi THEN (IF p.locals[lo].depth <= p.scopeDepth THEN lo ELSE 0)
         ELSE lastKept_upper(lastKept(p, ((lo + hi) \div 2) + 1, hi), p, lo, (lo + hi) \div 2)

popLocals_kept(p) == lastKept(p, 1, Len(p.locals))

\* the loop of endScope: one OP_POP per local it removes
popLocals(p) ==
    [p EXCEPT !.chunk = chunk_emit_times(@, OP("POP") % 256, 1, p.pos,
                                         Len(p.locals) - popLocals_kept(p)),
              !.locals = SubSeq(@, 1, popLocals_kept(p))]

\* the locals left when endScope returns
endScope_done(q) == Logged(q, "end", "", Len(q.locals))

endScope(p) == endScope_done(popLocals([p EXCEPT !.scopeDepth = @ - 1]))

\* str_copy interns the lexeme: the string object is its characters
identifierConstant(p, name) == makeConstant(p, VAL_STR(<<name.name>>))

identifiersEqual(a, b) == a.name = b.name

\* the index resolveLocal returns: the topmost local of that name, -1 if none
resolveLocalIndex(p, name) ==
    LET hits == { i \in 1..Len(p.locals) : identifiersEqual(name, p.locals[i].name) }
    IN IF hits = {} THEN -1
       ELSE (CHOOSE i \in hits : \A j \in hits : j <= i) - 1

resolveLocal_found_unchecked(p, i) == [p |-> p, index |-> i]

\* the check resolveLocal makes on the local it found
resolveLocal_found(p, i) ==
    IF i # -1 /\ p.locals[i + 1].depth = -1
    THEN [p |-> error(p, "Cannot read local variable in its own initializer."), index |-> i]
    ELSE [p |-> p, index |-> i]

resolveLocal(p, name) ==
    resolveLocal_found(Logged(p, "resolve", name.name, resolveLocalIndex(p, name)),
                       resolveLocalIndex(p, name))

addLocal_unbounded(p, name) ==
    [Logged(p, "add", name.name, Len(p.locals))
       EXCEPT !.locals = Append(@, [name |-> name, depth |-> -1])]

addLocal(p, name) ==
    IF Len(p.locals) = UINT8_COUNT
    THEN error(p, "Too many local variables in function.")
    ELSE [Logged(p, "add", name.name, Len(p.locals))
            EXCEPT !.locals = Append(@, [name |-> name, depth |-> -1])]

\* the locals declareVariable's loop visits: from the top down to, and not
\* including, the first initialised local of an enclosing scope
RECURSIVE lastStop(_, _, _)
lastStop_upper(r, p, lo, mid) == IF r # 0 THEN r ELSE lastStop(p, lo, mid)

lastStop(p, lo, hi) ==
    IF lo > hi THEN 0
    ELSE IF lo = hi
         THEN (IF p.locals[lo].depth # -1 /\ p.locals[lo].depth < p.scopeDepth THEN lo ELSE 0)
         ELSE lastStop_upper(lastStop(p, ((lo + hi) \div 2) + 1, hi), p, lo, (lo + hi) \div 2)

scopeTop(p, i) == (lastStop(p, 1, i) + 1)..i

declareVariable_local_anyScope(p, name) ==
    addLocal(IF \E i \in 1..Len(p.locals) : identifiersEqual(name, p.locals[i].name)
             THEN error(p, "Variable with this name already declared in this scope.")
             ELSE p,
             name)

\* declareVariable inside a scope: the loop over the locals, then addLocal
declareVariable_local(p, name) ==
    addLocal(IF \E i \in scopeTop(p, Len(p.locals)) :
                   identifiersEqual(name, p.locals[i].name)
             THEN error(p, "Variable with this name already declared in this scope.")
             ELSE p,
             name)

declareVariable_logged(p) ==
    IF p.scopeDepth = 0 THEN p ELSE declareVariable_local(p, p.previous)

declareVariable(p) == declareVariable_logged(Logged(p, "declare", p.previous.name, p.scopeDepth))

\* what parseVariable returns once the variable is declared
parseVariable_index(q) ==
    IF q.scopeDepth > 0 THEN [p |-> q, index |-> 0] ELSE identifierConstant(q, q.previous)

parseVariable(p, errorMessage) ==
    parseVariable_index(declareVariable(consume(p, "TOKEN_IDENTIFIER", errorMessage)))

\* locals[localCount - 1].depth = scopeDepth; with no local the store is out
\* of the array
markInitialized(p) ==
    IF Len(p.locals) = 0 THEN [p EXCEPT !.undefined = TRUE]
    ELSE [Logged(p, "init", p.locals[Len(p.locals)].name.name, Len(p.locals) - 1)
            EXCEPT !.locals[Len(p.locals)].depth = p.scopeDepth,
                   !.marks = Append(@, Mark("decl", p.chunk.count, Len(p.locals) - 1))]

defineVariable(p, global) ==
    IF p.scopeDepth > 0 THEN markInitialized(p)
    ELSE emitBytesAndConstLong(p, OP("DEF"), global)

(***************************************************************************)
(* The Pratt parser: parsePrecedence and the parse functions of the rules  *)
(* table, then the statements.                                             *)
(***************************************************************************)
RECURSIVE parsePrecedence(_, _)
RECURSIVE infixLoop(_, _, _)
RECURSIVE declaration(_)
RECURSIVE blockLoop(_)

expression(p) == parsePrecedence(p, PREC_ASSIGNMENT)

binaryPrecedence_right(rule) == rule.precedence

\* the precedence binary parses its right operand at
binaryPrecedence(rule) == rule.precedence + 1

\* the switch of binary: the operator's instruction after both operands
binary_emit(q, operatorType) ==
       CASE operatorType = "TOKEN_EQUAL_EQUAL" -> emitByte(q, OP("EQ"))
         [] operatorType = "TOKEN_LESS" -> emitByte(q, OP("LT"))
         [] operatorType = "TOKEN_LESS_EQUAL" -> emitByte(q, OP("LE"))
         [] operatorType = "TOKEN_BANG_EQUAL" -> emitBytes(q, OP("EQ"), OP("NOT"))
         [] operatorType = "TOKEN_GREATER" -> emitBytes(q, OP("LE"), OP("NOT"))
         [] operatorType = "TOKEN_GREATER_EQUAL" -> emitBytes(q, OP("LT"), OP("NOT"))
         [] operatorType = "TOKEN_PLUS" -> emitByte(q, OP("ADD"))
         [] operatorType = "TOKEN_MINUS" -> emitByte(q, OP("SUB"))
         [] operatorType = "TOKEN_STAR" -> emitByte(q, OP("MUL"))
         [] operatorType = "TOKEN_SLASH" -> emitByte(q, OP("DIV"))
         [] OTHER -> q

binary(p, canAssign) ==
    binary_emit(parsePrecedence(p, binaryPrecedence(getRule(p.previous.type))),
                p.previous.type)

literal(p, canAssign) ==
    CASE p.previous.type = "TOKEN_FALSE" -> emitByte(p, OP("FALSE"))
      [] p.previous.type = "TOKEN_NIL" -> emitByte(p, OP("NIL"))
      [] p.previous.type = "TOKEN_TRUE" -> emitByte(p, OP("TRUE"))
      [] OTHER -> p

grouping(p, canAssign) ==
    consume(expression(p), "TOKEN_RIGHT_PAREN", "Expect ')' after expression.")

\* strtod of the lexeme of a number token
number(p, canAssign) == emitConstant(p, VAL_NUM(p.previous.num))

\* str_copy of the lexeme without its quotes
string(p, canAssign) == emitConstant(p, VAL_STR(<<p.previous.name>>))

\* namedVariable after the right-hand side of an assignment: the set instruction
namedVariable_set(q, isLocal, arg) ==
    [emitBytesAndConstLong(q, IF isLocal THEN OP("ST") ELSE OP("GST"), arg)
       EXCEPT !.marks = IF isLocal THEN Append(@, Mark("st", q.chunk.count, arg)) ELSE @,
              !.log = Append(@, Ev("set", IF isLocal THEN "ST" ELSE "GST", q.chunk.count))]

namedVariable_emit_always(p, isLocal, arg, canAssign) ==
    IF check(p, "TOKEN_EQUAL")
    THEN namedVariable_set(expression(Logged(advance(p), "assign", p.previous.name, p.pos)),
                           isLocal, arg)
    ELSE [emitBytesAndConstLong(p, IF isLocal THEN OP("LD") ELSE OP("GLD"), arg)
            EXCEPT !.marks = IF isLocal THEN Append(@, Mark("ld", p.chunk.count, arg)) ELSE @]

\* namedVariable once arg and the pair of opcodes are chosen
namedVariable_emit(p, isLocal, arg, canAssign) ==
    IF canAssign /\ check(p, "TOKEN_EQUAL")
    THEN namedVariable_set(expression(Logged(advance(p), "assign", p.previous.name, p.pos)),
                           isLocal, arg)
    ELSE [emitBytesAndConstLong(p, IF isLocal THEN OP("LD") ELSE OP("GLD"), arg)
            EXCEPT !.marks = IF isLocal THEN Append(@, Mark("ld", p.chunk.count, arg)) ELSE @]

\* namedVariable for a name that is no local: arg = identifierConstant(&name)
namedVariable_global(c, canAssign) == namedVariable_emit(c.p, FALSE, c.index, canAssign)

\* namedVariable after resolveLocal
namedVariable_resolved(r, name, canAssign) ==
    IF r.index # -1 THEN namedVariable_emit(r.p, TRUE, r.index, canAssign)
    ELSE namedVariable_global(identifierConstant(r.p, name), canAssign)

namedVariable(p, name, canAssign) ==
    namedVariable_resolved(resolveLocal(p, name), name, canAssign)

variable(p, canAssign) == namedVariable(p, p.previous, canAssign)

\* the switch of unary: the operator's instruction after the operand
unary_emit(q, operatorType) ==
    CASE operatorType = "TOKEN_BANG" -> emitByte(q, OP("NOT"))
      [] operatorType = "TOKEN_MINUS" -> emitByte(q, OP("NEG"))
      [] OTHER -> q

unary(p, canAssign) == unary_emit(parsePrecedence(p, PREC_UNARY), p.previous.type)

\* a call through a parse function pointer of the rules table
callRule(fn, p, canAssign) ==
    CASE fn = "grouping" -> grouping(p, canAssign)
      [] fn = "unary" -> unary(p, canAssign)
      [] fn = "binary" -> binary(p, canAssign)
      [] fn = "variable" -> variable(p, canAssign)
      [] fn = "string" -> string(p, canAssign)
      [] fn = "number" -> number(p, canAssign)
      [] fn = "literal" -> literal(p, canAssign)
      [] OTHER -> [p EXCEPT !.undefined = TRUE]

\* infixRule(canAssign) for the operator just consumed
infixRule(q, canAssign) == callRule(getRule(q.previous.type).infix, q, canAssign)

infixLoop(p, precedence, canAssign) ==
    IF precedence <= getRule(p.current.type).precedence /\ ~p.undefined
    THEN infixLoop(infixRule(advance(p), canAssign), precedence, canAssign)
    ELSE p

\* the end of parsePrecedence: an '=' left over is an invalid assignment target
parsePrecedence_target(r, canAssign) ==
    IF canAssign /\ check(r, "TOKEN_EQUAL")
    THEN error(Logged(advance(r), "target", "", r.chunk.count), "Invalid assignment target.")
    ELSE r

\* parsePrecedence after its advance()
parsePrecedence_prefix(q, precedence, canAssign) ==
    IF getRule(q.previous.type).prefix = "NULL" THEN error(q, "Expect expression.")
    ELSE parsePrecedence_target(
             infixLoop(callRule(getRule(q.previous.type).prefix, q, canAssign),
                       precedence, canAssign),
             canAssign)

parsePrecedence(p, precedence) ==
    parsePrecedence_prefix(advance(p), precedence, precedence <= PREC_ASSIGNMENT)

blockLoop(p) ==
    IF ~check(p, "TOKEN_RIGHT_BRACE") /\ ~check(p, "TOKEN_EOF")
    THEN blockLoop(declaration(p))
    ELSE p

block(p) == consume(blockLoop(p), "TOKEN_RIGHT_BRACE", "Expect '}' after block.")

\* the initialiser of a declaration, OP_NIL when there is none
varDeclaration_init(p) ==
    IF check(p, "TOKEN_EQUAL") THEN expression(advance(p)) ELSE emitByte(p, OP("NIL"))

\* varDeclaration after parseVariable
varDeclaration_define(v) ==
    defineVariable(consume(varDeclaration_init(v.p), "TOKEN_SEMICOLON",
                           "Expect ';' after variable declaration."),
                   v.index)

varDeclaration(p) == varDeclaration_define(parseVariable(p, "Expect variable name."))

expressionStatement(p) ==
    emitByte(consume(expression(p), "TOKEN_SEMICOLON", "Expect ';' after expression."),
             OP("POP"))

\* emitByte(OP_PRINT), the last line of printStatement
printStatement_emit(q) ==
    [emitByte(q, OP("PRINT"))
       EXCEPT !.marks = Append(@, Mark("print", q.chunk.count, q.chunk.count + 1))]

printStatement(p) ==
    printStatement_emit(consume(expression(p), "TOKEN_SEMICOLON", "Expect ';' after value."))

SyncTokens == { "TOKEN_CLASS", "TOKEN_FUN", "TOKEN_VAR", "TOKEN_FOR", "TOKEN_IF",
                "TOKEN_WHILE", "TOKEN_PRINT", "TOKEN_RETURN" }

\* synchronize returns: the log keeps the token it stopped before
synchronize_done(p) ==
    Logged(p, "resume", p.current.type, IF p.previous.type = "TOKEN_SEMICOLON" THEN 1 ELSE 0)

RECURSIVE syncLoop(_)
syncLoop(p) ==
    IF p.current.type # "TOKEN_EOF"
    THEN IF p.previous.type = "TOKEN_SEMICOLON" THEN synchronize_done(p)
         ELSE IF p.current.type \in SyncTokens THEN synchronize_done(p)
         ELSE syncLoop(Logged(advance(p), "skip", p.current.type, 0))
    ELSE synchronize_done(p)

synchronize_forgive(p) ==
    syncLoop([Logged(p, "synchronize", "", 0) EXCEPT !.panicMode = FALSE, !.hadError = FALSE])

synchronize(p) == syncLoop([Logged(p, "synchronize", "", 0) EXCEPT !.panicMode = FALSE])

\* the code of a block lies between the offsets begin and the current count
statement_marked(r, begin) ==
    [r EXCEPT !.marks = Append(@, Mark("block", begin, r.chunk.count))]

\* beginScope(); block(); endScope();
statement_block(q) == statement_marked(endScope(block(q)), q.chunk.count)

statement(p) ==
    IF check(p, "TOKEN_PRINT") THEN printStatement(advance(p))
    ELSE IF check(p, "TOKEN_LEFT_BRACE") THEN statement_block(beginScope(advance(p)))
    ELSE expressionStatement(p)

\* if (parser.panicMode) synchronize();
declaration_sync(q) == IF q.panicMode THEN synchronize(q) ELSE q

declaration(p) ==
    declaration_sync(IF check(p, "TOKEN_VAR") THEN varDeclaration(advance(p))
                     ELSE statement(p))

RECURSIVE compileLoop(_)
compileLoop(p) ==
    IF check(p, "TOKEN_EOF") THEN advance(p) ELSE compileLoop(declaration(p))

\* compile: the parser after endCompiler; compile returns !hadError
compile(toks) == endCompiler(compileLoop(advance(initCompiler(toks))))

(***************************************************************************)
(* Tables.  tab_* is the string-keyed table (keys are interned strings,    *)
(* identified by their characters), hash_* the raw-keyed hash (keys are    *)
(* the 64 raw bits of a value, here the value itself).  Both are finite    *)
(* maps; set reports whether the key is new.                               *)
(***************************************************************************)
EmptyTab == [key \in {} |-> Blank]

tab_has(table, key) == key \in DOMAIN table
tab_get(table, key) == table[key]
tab_set(table, key, value) ==
    [key2 \in (DOMAIN table) \cup {key} |-> IF key2 = key THEN value ELSE table[key2]]
tab_remove(table, key) == [key2 \in (DOMAIN table) \ {key} |-> table[key2]]

hash_has(hash, key) == key \in DOMAIN hash
hash_get(hash, key) == hash[key]
hash_set(hash, key, value) ==
    [key2 \in (DOMAIN hash) \cup {key} |-> IF key2 = key THEN value ELSE hash[key2]]

\* val_equal: equal tags and equal bits; an object by reference
val_equal(a, b) == a = b

(***************************************************************************)
(* Function objects and scenarios.                                         *)
(***************************************************************************)
Fun(name, arity, code, constants) ==
    [name |-> name, arity |-> arity, code |-> code, constants |-> constants]

EmptyFun == Fun("script", 0, <<>>, <<>>)

RECURSIVE Cat(_)
\* the concatenation of a sequence of byte sequences
Cat(seqs) == IF seqs = <<>> THEN <<>> ELSE Head(seqs) \o Cat(Tail(seqs))

I(op) == <<OP(op)>>
I1(op, operand) == <<OP(op), operand>>
I2(op, hi, lo) == <<OP(op), hi, lo>>

(***************************************************************************)
(* Hand-assembled functions, as a host embedding the VM builds them with   *)
(* chunk_emit and arr_add.  They share one constant pool.                  *)
(***************************************************************************)
POOL == << VAL_NUM(0), VAL_NUM(1), VAL_NUM(2),
           VAL_STR(<<"a">>), VAL_STR(<<"b">>), VAL_STR(<<"clock">>),
           VAL_FUN("f0"), VAL_FUN("f1"), VAL_FUN("rec"), VAL_FUN("bad"),
           VAL_FUN("deep"), VAL_FUN("count") >>

K(value) == (CHOOSE i \in 1..Len(POOL) : POOL[i] = value) - 1
Kn(i) == I1("CONST", K(VAL_NUM(i)))
Ks(name) == K(VAL_STR(<<name>>))
Kf(name) == I1("CONST", K(VAL_FUN(name)))

\* the functions a hand-assembled main can call
Helpers ==
    [name \in {"f0", "f1", "rec", "bad", "deep", "count"} |->
        CASE name = "f0" -> Fun("f0", 0, Cat(<<Kn(1), I("RET")>>), POOL)
          [] name = "f1" -> Fun("f1", 1, Cat(<<I1("LD", 1), I("RET")>>), POOL)
          [] name = "rec" -> Fun("rec", 0, Cat(<<I1("LD", 0), I1("CALL", 0), I("RET")>>), POOL)
          [] name = "bad" -> Fun("bad", 0, Cat(<<I("NIL"), I("NIL"), I("NEG"), I("RET")>>), POOL)
          [] name = "deep" -> Fun("deep", 0, Cat(<<Kn(2), Kf("bad"), I1("CALL", 0), I("RET")>>), POOL)
          \* count(n) calls count(n - 1) while n is not 0, then f1 with no argument
          [] name = "count" ->
               Fun("count", 1,
                   Cat(<<I1("LD", 1), I2("JMPF", 0, 11), I("POP"), I1("LD", 0), I1("LD", 1),
                         Kn(1), I("SUB"), I1("CALL", 1), I("RET"),
                         I("POP"), Kf("f1"), I1("CALL", 0), I("RET")>>),
                   POOL)]

\* instruction sequences that push one value of each kind
Pushers ==
    { I("NIL"), I("TRUE"), I("FALSE"), Kn(0), Kn(1), Kn(2),
      I1("CONST", Ks("a")), I1("CONST", Ks("b")), Kf("f0"), I1("MAP", 0),
      I1("GLD", Ks("clock")),
      Cat(<<Kn(0), I("NEG")>>),
      Cat(<<Kn(1), Kn(0), I("DIV")>>),
      Cat(<<Kn(0), Kn(0), I("DIV")>>) }

BinOps == { "ADD", "SUB", "MUL", "DIV", "LT", "LE", "EQ" }

\* one operand of each type, and the numbers 0, 1, 2
Operands ==
    { I("NIL"), I("TRUE"), I("FALSE"), Kn(0), Kn(1), Kn(2), I1("CONST", Ks("a")),
      I1("CONST", Ks("b")), Kf("f0"), I1("MAP", 0), I1("GLD", Ks("clock")) }

AsmBinary == { Cat(<<x, y, I(o), I("RET")>>) : x \in Operands, y \in Operands, o \in BinOps }

AsmUnary ==
    { Cat(<<x, u, I("RET")>>) :
        x \in Pushers,
        u \in { I("NOT"), I("NEG"), Cat(<<I("NOT"), I("NOT")>>), I("POP"), I1("PRINT", 1),
                Cat(<<I2("JMPF", 0, 1), I("NOT")>>) } }

\* one operation on a global: define, load, or store and drop
GlobalOps ==
    { Cat(<<Kn(v), I1("DEF", Ks(name))>>) : v \in {1, 2}, name \in {"a", "b"} }
    \cup { Cat(<<I1("GLD", Ks(name)), I("POP")>>) : name \in {"a", "b"} }
    \cup { Cat(<<Kn(v), I1("GST", Ks(name)), I("POP")>>) : v \in {0, 2}, name \in {"a"} }

AsmGlobals ==
    { Cat(<<g1, I("RET")>>) : g1 \in GlobalOps }
    \cup { Cat(<<g1, g2, I("RET")>>) : g1 \in GlobalOps, g2 \in GlobalOps }
    \cup { Cat(<<g1, g2, g3, I("RET")>>) : g1 \in GlobalOps, g2 \in GlobalOps, g3 \in GlobalOps }

Callees ==
    { Kf("f0"), Kf("f1"), Kf("rec"), Kf("bad"), Kf("deep"), I("NIL"), Kn(1),
      I1("CONST", Ks("a")), I1("MAP", 0), I1("GLD", Ks("clock")) }

Args(argc) == [i \in 1..argc |-> Kn(i)]

AsmCalls ==
    { Cat(<<Kn(0), c, Cat(Args(argc)), I1("CALL", argc), I("RET")>>) :
        c \in Callees, argc \in 0..2 }

MapMakers ==
    { I1("MAP", 0), Cat(<<Kn(1), Kn(2), I1("MAP", 2)>>), I("NIL"), I1("CONST", Ks("a")) }
KeyPushers == { Kn(0), Kn(1), I1("CONST", Ks("a")), I("NIL") }
MapWrites ==
    { Cat(<<I1("LD", 1), k, Kn(v), I("SETI"), I("POP")>>) : k \in KeyPushers, v \in {0, 2} }
    \cup { Cat(<<I1("LD", 1), Kn(2), I1("SET", Ks(name)), I("POP")>>) : name \in {"a", "b"} }
MapReads ==
    { Cat(<<I1("LD", 1), k, I("GETI")>>) : k \in KeyPushers }
    \cup { Cat(<<I1("LD", 1), I1("GET", Ks(name))>>) : name \in {"a", "b"} }

AsmMaps ==
    { Cat(<<m, w, r, I("RET")>>) : m \in MapMakers, w \in MapWrites, r \in MapReads }
    \cup { Cat(<<m, r, I("RET")>>) : m \in MapMakers, r \in MapReads }

AsmMisc ==
    { Cat(<<Kn(1), Kn(2), I1("PRINT", 2), I("NIL"), I("RET")>>),
      Cat(<<Kn(1), I1("ST", 0), I1("LD", 0), I("RET")>>),
      Cat(<<I("NIL"), Kn(2), I1("ST", 1), I("POP"), I("RET")>>),
      Cat(<<I2("JMP", 0, 1), I("NIL"), I("TRUE"), I("RET")>>),
      Cat(<<I("TRUE"), I2("JMPF", 0, 0), I("RET")>>),
      Cat(<<I("NIL"), I1("LD", 3), I("RET")>>),
      Cat(<<I("NIL"), I1("CONST", 200), I("RET")>>),
      Cat(<<Kn(1), I1("DEF", K(VAL_NUM(1))), I("RET")>>),
      Cat(<<I("NIL"), I("NIL"), I("NIL"), I("NIL"), I("NIL"), I("NIL"), I("RET")>>),
      Cat(<<I("NIL"), I("POP"), I("POP"), I("POP"), I("RET")>>),
      Cat(<<Kf("count"), Kn(FRAMES_MAX - 2), I1("CALL", 1), I("RET")>>),
      <<200>>,
      I2("CONSTL", 0, 0),
      I("NIL"),
      I1("CONST", 0),
      <<>> }

AsmMains ==
    { Fun("script", 0, code, POOL) :
        code \in AsmBinary \cup AsmUnary \cup AsmGlobals \cup AsmCalls \cup AsmMaps \cup AsmMisc }

(***************************************************************************)
(* Source files: every sequence of at most MaxItems statements and braces. *)
(***************************************************************************)
SEMI == Tok("TOKEN_SEMICOLON")

Items ==
    { <<Tok("TOKEN_VAR"), TokId("a"), Tok("TOKEN_EQUAL"), TokNum(1), SEMI>>,
      <<Tok("TOKEN_VAR"), TokId("b"), Tok("TOKEN_EQUAL"), TokId("a"), SEMI>>,
      <<TokId("a"), SEMI>>,
      <<TokId("a"), Tok("TOKEN_EQUAL"), TokNum(2), SEMI>>,
      <<Tok("TOKEN_PRINT"), TokId("a"), SEMI>>,
      <<Tok("TOKEN_LEFT_BRACE")>>,
      <<Tok("TOKEN_RIGHT_BRACE")>>,
      <<TokErr("Unexpected character.")>> }

\* the binary operators by rising precedence
ClimbTokens == <<"TOKEN_EQUAL_EQUAL", "TOKEN_LESS", "TOKEN_PLUS", "TOKEN_STAR">>

\* 1 == 1 < 1 + 1 * (1 == 1 < ... ): an expression that has n operands
\* pending at once, each operator binding tighter than the one before it and
\* a group opened after the tightest
RECURSIVE Climb(_, _)
Climb(n, level) ==
    IF n <= 1 THEN <<TokNum(1)>>
    ELSE IF level > Len(ClimbTokens)
         THEN <<Tok("TOKEN_LEFT_PAREN")>> \o Climb(n, 1) \o <<Tok("TOKEN_RIGHT_PAREN")>>
         ELSE <<TokNum(1), Tok(ClimbTokens[level])>> \o Climb(n - 1, level + 1)

\* an expression statement with as many operands pending as the stack has slots
DeepExpression == Climb(STACK_MAX, 1) \o <<SEMI>>

\* a source file given by its items, and an assembled function to run
FileScenario(items) == [kind |-> "file", src |-> Cat(items), main |-> EmptyFun]
AsmScenario(f) == [kind |-> "asm", src |-> <<>>, main |-> f]

\* what the host may pass to set_global
HostGlobals ==
    { [name |-> <<"clock">>, value |-> VAL_CFN("clockNative")] }

\* the values clock() / CLOCKS_PER_SEC can take
ClockValues == { VAL_NUM(0), VAL_NUM(5) }

(***************************************************************************)
(* The state.                                                              *)
(*   scen                the source file or the assembled function to run  *)
(*   parser              the parser and compiler as compile left them      *)
(*   other               the VM vm_clone makes, or whichever of the two    *)
(*                       VMs the host is not driving: its own stack and    *)
(*                       frames, and whether its globals pointer is the    *)
(*                       driven VM's                                       *)
(*   phase               "host" before the run, "run" inside vm_execute,   *)
(*                       "done" after it                                   *)
(*   funs, maps          the heap: function objects by name, map objects   *)
(*   globals             vm->globals                                       *)
(*   stack, top          vm->stack[0 .. top-1] and vm->top - vm->stack     *)
(*   frames, frameCount  vm->frames[0 .. frameCount-1] and vm->frameCount  *)
(*   ip                  the ip register of vm_execute                     *)
(*   result              what vm_dofile / vm_execute returned              *)
(*   undefined           the run left defined behaviour                    *)
(*   out, err            stdout (one sequence of values per line), stderr  *)
(* History, read by the properties only:                                   *)
(*   marks               the compiler's marks for the compiled script      *)
(*   last                the instruction executed last and the state it    *)
(*                       started from                                      *)
(*   home                per compiler local, the stack index its value was *)
(*                       left at when it was declared                      *)
(*   blk                 per compiled block, the stack height at its entry *)
(*                       and at its exit                                   *)
(*   stored              per global name, the value stored last            *)
(***************************************************************************)
VARIABLES scen, parser, other, phase, hostCalls, funs, maps, globals, stack, top, frames, frameCount,
          ip, result, undefined, out, err, marks, last, home, blk, stored, heap

vars == <<scen, parser, other, phase, hostCalls, funs, maps, globals, stack, top, frames, frameCount,
          ip, result, undefined, out, err, marks, last, home, blk, stored, heap>>

\* the gc, globals and strings vm_create allocates: how many times they
\* were freed, and the VMs closed so far
NoHeap == [frees |-> 0, closed |-> {}]

\* no second VM yet
NoClone == [made |-> FALSE, name |-> "clone", stack |-> <<>>, top |-> 0, frames |-> <<>>,
            frameCount |-> 0, ip |-> 0, phase |-> "host", result |-> "NONE",
            shared |-> TRUE, table |-> EmptyTab]

NoLast == [op |-> "-", at |-> 0, fn |-> "-", operand |-> 0, stack |-> <<>>, top |-> 0,
           frameCount |-> 0, slots |-> 0, globals |-> EmptyTab, error |-> FALSE]

\* resetStack and the rest of vm_create: empty stack, no frames, empty tables
Init ==
    /\ \/ \E n \in 0..MaxItems : \E items \in [1..n -> Items] : scen = FileScenario(items)
       \/ scen = FileScenario(<<DeepExpression>>)
       \/ \E f \in AsmMains : scen = AsmScenario(f)
    /\ parser = initCompiler(<<>>)
    /\ other = NoClone
    /\ phase = "host"
    /\ hostCalls = 0
    /\ funs = [name \in (DOMAIN Helpers) \cup {"script"} |->
                 IF name = "script" THEN scen.main ELSE Helpers[name]]
    /\ maps = <<>>
    /\ globals = EmptyTab
    /\ stack = <<>>
    /\ top = 0
    /\ frames = <<>>
    /\ frameCount = 0
    /\ ip = 0
    /\ result = "NONE"
    /\ undefined = FALSE
    /\ out = <<>>
    /\ err = <<>>
    /\ marks = <<>>
    /\ last = NoLast
    /\ home = <<>>
    /\ blk = <<>>
    /\ stored = EmptyTab
    /\ heap = NoHeap

(***************************************************************************)
(* The registers of vm_execute and the stack macros.                       *)
(***************************************************************************)
Frame == frames[frameCount]
CODE == funs[Frame.function].code
CONSTS == funs[Frame.function].constants
\* the index in vm->stack of the frame's slot 0 (the STACK register)
STACK == Frame.slots

InCode(offset) == offset >= 0 /\ offset < Len(CODE)
Byte(offset) == CODE[offset + 1]
\* the opcode at ip, and the operands READ_BYTE and READ_SHORT read after it
Opcode == Decode(Byte(ip))
Operand == Byte(ip + 1)
Short == (Byte(ip + 1) * 256 + Byte(ip + 2)) % 65536
READ_CONST == CONSTS[Operand + 1]

PEEK(i) == stack[top - i]
PUSH(s, v) == Append(s, v)
\* the stack with its n topmost values popped
POPN(s, n) == SubSeq(s, 1, Len(s) - n)

\* bytes of inline operand a handler reads
OperandBytes(op) ==
    CASE op \in {"PRINT", "CONST", "CALL", "DEF", "GLD", "GST", "LD", "ST", "MAP"} -> 1
      [] op = "GET" -> IF top >= 1 /\ IS_MAP(PEEK(0)) THEN 1 ELSE 0
      [] op = "SET" -> IF top >= 2 /\ IS_MAP(PEEK(1)) THEN 1 ELSE 0
      [] op \in {"JMP", "JMPF"} -> 2
      [] OTHER -> 0

\* stack values a handler reads or pops
Needs(op) ==
    CASE op \in {"POP", "RET", "NOT", "NEG", "DEF", "GST", "ST", "JMPF", "GET"} -> 1
      [] op \in {"EQ", "LT", "LE", "ADD", "SUB", "MUL", "DIV", "SET", "GETI"} -> 2
      [] op = "SETI" -> 3
      [] op \in {"PRINT", "MAP"} -> Operand
      [] op = "CALL" -> Operand + 1
      [] OTHER -> 0

\* whether the handler can push above what it found on the stack
Grows(op) == op \in {"NIL", "TRUE", "FALSE", "CONST", "GLD", "LD"} \/ (op = "MAP" /\ Operand = 0)

\* whether the handler reads a constant, and whether it reads it as a string
ReadsConst(op) ==
    op \in {"CONST", "DEF", "GLD", "GST"} \/ (op \in {"GET", "SET"} /\ OperandBytes(op) = 1)
ReadsStr(op) == ReadsConst(op) /\ op # "CONST"

\* whether the handler reads or writes vm->globals, vm->strings or vm->gc
UsesHeap(op) ==
    \/ op \in {"DEF", "GLD", "GST", "MAP"}
    \/ op = "ADD" /\ top >= 2 /\ IS_STR(PEEK(0)) /\ IS_STR(PEEK(1))

(***************************************************************************)
(* Whether the instruction at ip stays within defined behaviour: it and    *)
(* its operands lie in the code, the values it pops exist, the value it    *)
(* pushes fits the stack, the constant it names exists (and is a string    *)
(* where READ_STR reads it), and the slot LD or ST addresses is a live     *)
(* slot of the stack, and the tables and the heap registry it uses have   *)
(* not been freed.                                                         *)
(***************************************************************************)
Defined ==
    /\ frameCount >= 1
    /\ InCode(ip)
    /\ LET op == Opcode
       IN op # "BAD" =>
            /\ top >= 0
            /\ ip + OperandBytes(op) < Len(CODE)
            /\ top >= Needs(op)
            /\ ReadsConst(op) => Operand < Len(CONSTS)
            /\ ReadsStr(op) => IS_STR(READ_CONST)
            /\ (Grows(op) /\ ~(op = "GLD" /\ ~tab_has(globals, READ_CONST.chars)))
                  => top < STACK_MAX
            /\ (op = "RET" /\ frameCount > 1) => STACK < top
            /\ op \in {"LD", "ST"} => STACK + Operand >= 0 /\ STACK + Operand < top
            /\ UsesHeap(op) => heap.frees = 0

Running(op) == phase = "run" /\ Defined /\ Opcode = op

(***************************************************************************)
(* History.                                                                *)
(***************************************************************************)
Record(op, failed) ==
    [op |-> op, at |-> ip, fn |-> Frame.function,
     operand |-> IF ip + 1 < Len(CODE) THEN Operand ELSE 0,
     stack |-> stack, top |-> top, frameCount |-> frameCount, slots |-> STACK,
     globals |-> globals, error |-> failed]

\* the marks of one kind, as the set of their positions in marks
MarksOf(kind) == { i \in 1..Len(marks) : marks[i].kind = kind }

\* home h, once the script's ip is newIp with newTop values on the stack
HomeAt(mk, h, newIp, newTop) ==
    [i \in 1..Len(h) |->
        IF \E m \in 1..Len(mk) :
              mk[m].kind = "decl" /\ mk[m].idx = i - 1 /\ mk[m].at = newIp
        THEN {newTop - 1} ELSE h[i]]

\* blk b likewise: a block is entered when ip is at its first instruction,
\* and left when ip is first at or after the end of its instructions
BlkAt(mk, b, newIp, newTop) ==
    [i \in 1..Len(b) |->
        LET m == mk[i]
            entered == b[i].entry # {} \/ (m.kind = "block" /\ m.at = newIp)
            entry == IF b[i].entry # {} THEN b[i].entry ELSE {newTop}
        IN IF m.kind # "block" \/ ~entered THEN b[i]
           ELSE [entry |-> entry,
                 exit |-> IF b[i].exit = {} /\ newIp >= m.idx
                          THEN {newTop} ELSE b[i].exit]]

InScript == scen.kind = "file" /\ frameCount >= 1 /\ Frame.function = "script"

(***************************************************************************)
(* How a handler ends: NEXT with a new stack and ip, or ERROR.             *)
(***************************************************************************)
Continue(op, newStack, newIp) ==
    /\ stack' = newStack
    /\ top' = Len(newStack)
    /\ ip' = newIp
    /\ last' = Record(op, FALSE)
    /\ home' = IF InScript THEN HomeAt(marks, home, newIp, Len(newStack)) ELSE home
    /\ blk' = IF InScript THEN BlkAt(marks, blk, newIp, Len(newStack)) ELSE blk
    /\ UNCHANGED <<heap, scen, parser, other, phase, hostCalls, funs, frames, frameCount, result, undefined,
                   err, marks>>

\* the stack trace runtimeError prints: per frame, innermost first, the
\* function and the offset of the instruction before its ip
Trace(fs, count) ==
    [i \in 1..count |-> <<fs[count - i + 1].function, fs[count - i + 1].ip - 1>>]

runtimeError_keep(fs, message) ==
    /\ err' = Append(err, [message |-> message, trace |-> Trace(fs, frameCount)])
    /\ UNCHANGED <<stack, top, frames, frameCount>>

\* runtimeError: the message, the trace, then resetStack
runtimeError(fs, message) ==
    /\ err' = Append(err, [message |-> message, trace |-> Trace(fs, frameCount)])
    /\ stack' = <<>>
    /\ top' = 0
    /\ frames' = <<>>
    /\ frameCount' = 0

\* ERROR: STORE_FRAME with the ip register at ipNow, runtimeError, return
ERROR(op, ipNow, message) ==
    /\ runtimeError([frames EXCEPT ![frameCount].ip = ipNow], message)
    /\ result' = "RUNTIME_ERROR"
    /\ phase' = "done"
    /\ last' = Record(op, TRUE)
    /\ UNCHANGED <<heap, scen, parser, other, hostCalls, funs, ip, undefined, marks, home, blk>>

(***************************************************************************)
(* The handlers of vm_execute.                                             *)
(***************************************************************************)
OP_PRINT ==
    /\ Running("PRINT")
    /\ LET count == Operand
       IN /\ out' = Append(out, [i \in 1..count |-> PEEK(count - i)])
          /\ Continue("PRINT", POPN(stack, count), ip + 2)
    /\ UNCHANGED <<maps, globals, stored>>

OP_POP ==
    /\ Running("POP")
    /\ Continue("POP", POPN(stack, 1), ip + 1)
    /\ UNCHANGED <<maps, globals, stored, out>>

OP_NIL ==
    /\ Running("NIL")
    /\ Continue("NIL", PUSH(stack, VAL_NIL), ip + 1)
    /\ UNCHANGED <<maps, globals, stored, out>>

OP_TRUE ==
    /\ Running("TRUE")
    /\ Continue("TRUE", PUSH(stack, VAL_TRUE), ip + 1)
    /\ UNCHANGED <<maps, globals, stored, out>>

OP_FALSE ==
    /\ Running("FALSE")
    /\ Continue("FALSE", PUSH(stack, VAL_FALSE), ip + 1)
    /\ UNCHANGED <<maps, globals, stored, out>>

OP_CONST ==
    /\ Running("CONST")
    /\ Continue("CONST", PUSH(stack, READ_CONST), ip + 2)
    /\ UNCHANGED <<maps, globals, stored, out>>

prepareCall_noLimit(function, argCount) ==
    IF argCount # function.arity THEN "arity" ELSE "ok"

prepareCall_limitFirst(function, argCount) ==
    IF frameCount = FRAMES_MAX THEN "overflow"
    ELSE IF argCount # function.arity THEN "arity"
    ELSE "ok"

\* prepareCall: "arity", "overflow" or "ok"
prepareCall(function, argCount) ==
    IF argCount # function.arity THEN "arity"
    ELSE IF frameCount = FRAMES_MAX THEN "overflow"
    ELSE "ok"

\* vm_call: what it does with the callee: "frame", "native" or the error
vm_call(callee, argCount) ==
    IF IS_OBJ(callee)
    THEN IF callee.ot = OT_FUN
         THEN LET r == prepareCall(funs[callee.ref], argCount)
              IN IF r = "ok" THEN "frame" ELSE r
         ELSE "notcallable"
    ELSE IF IS_CFN(callee) THEN "native"
    ELSE "notcallable"

CallMessage(how, callee, argCount) ==
    CASE how = "arity" ->
           <<"Expected %d arguments but got %d.", funs[callee.ref].arity, argCount>>
      [] how = "overflow" -> <<"Stack overflow.">>
      [] OTHER -> <<"Can only call functions and classes.">>

OP_CALL ==
    /\ Running("CALL")
    /\ LET argCount == Operand
           callee == PEEK(argCount)
           how == vm_call(callee, argCount)
           stored_frames == [frames EXCEPT ![frameCount].ip = ip + 2]
       IN CASE how = "frame" ->
                 /\ frames' = Append(stored_frames,
                                     [function |-> callee.ref, ip |-> 0,
                                      slots |-> top - argCount - 1])
                 /\ frameCount' = frameCount + 1
                 /\ ip' = 0
                 /\ last' = Record("CALL", FALSE)
                 /\ UNCHANGED <<stack, top, result, phase, err>>
            [] how = "native" ->
                 /\ \E t \in ClockValues :
                       stack' = PUSH(POPN(stack, argCount + 1), t)
                 /\ top' = top - argCount
                 /\ frames' = stored_frames
                 /\ ip' = ip + 2
                 /\ last' = Record("CALL", FALSE)
                 /\ UNCHANGED <<frameCount, result, phase, err>>
            [] OTHER ->
                 /\ runtimeError(stored_frames, CallMessage(how, callee, argCount))
                 /\ result' = "RUNTIME_ERROR"
                 /\ phase' = "done"
                 /\ last' = Record("CALL", TRUE)
                 /\ UNCHANGED ip
    /\ UNCHANGED <<heap, scen, parser, other, hostCalls, funs, maps, globals, undefined, out, marks, home, blk,
                   stored>>

OP_RET_keep ==
    /\ Running("RET")
    /\ LET value == PEEK(0)
       IN IF frameCount - 1 = 0
          THEN /\ stack' = IF top >= 2 THEN POPN(stack, 2) ELSE <<>>
               /\ top' = top - 2
               /\ frames' = <<>>
               /\ result' = "OK"
               /\ phase' = "done"
               /\ UNCHANGED ip
          ELSE /\ stack' = PUSH(SubSeq(stack, 1, STACK + 1), value)
               /\ top' = STACK + 2
               /\ frames' = SubSeq(frames, 1, frameCount - 1)
               /\ ip' = frames[frameCount - 1].ip
               /\ UNCHANGED <<result, phase>>
    /\ frameCount' = frameCount - 1
    /\ last' = Record("RET", FALSE)
    /\ UNCHANGED <<heap, scen, parser, other, hostCalls, funs, maps, globals, undefined, out, err, marks, home,
                   blk, stored>>

OP_RET ==
    /\ Running("RET")
    /\ LET value == PEEK(0)
       IN IF frameCount - 1 = 0
          THEN /\ stack' = IF top >= 2 THEN POPN(stack, 2) ELSE <<>>
               /\ top' = top - 2
               /\ frames' = <<>>
               /\ result' = "OK"
               /\ phase' = "done"
               /\ UNCHANGED ip
          ELSE /\ stack' = PUSH(SubSeq(stack, 1, STACK), value)
               /\ top' = STACK + 1
               /\ frames' = SubSeq(frames, 1, frameCount - 1)
               /\ ip' = frames[frameCount - 1].ip
               /\ UNCHANGED <<result, phase>>
    /\ frameCount' = frameCount - 1
    /\ last' = Record("RET", FALSE)
    /\ UNCHANGED <<heap, scen, parser, other, hostCalls, funs, maps, globals, undefined, out, err, marks, home,
                   blk, stored>>

OP_NOT ==
    /\ Running("NOT")
    /\ Continue("NOT", PUSH(POPN(stack, 1), VAL_BOOL(IS_FALSEY(PEEK(0)))), ip + 1)
    /\ UNCHANGED <<maps, globals, stored, out>>

OP_NEG ==
    /\ Running("NEG")
    /\ CASE AS_TYPE(PEEK(0)) = VT_BOOL ->
              Continue("NEG", PUSH(POPN(stack, 1), VAL_NUM(-BoolInt(PEEK(0)))), ip + 1)
         [] AS_TYPE(PEEK(0)) = VT_NUM ->
              Continue("NEG", PUSH(POPN(stack, 1), NumNeg(PEEK(0))), ip + 1)
         [] OTHER -> ERROR("NEG", ip + 1, <<"Operands must be a number/boolean.">>)
    /\ UNCHANGED <<maps, globals, stored, out>>

OP_EQ ==
    /\ Running("EQ")
    /\ Continue("EQ", PUSH(POPN(stack, 2), VAL_BOOL(val_equal(PEEK(1), PEEK(0)))), ip + 1)
    /\ UNCHANGED <<maps, globals, stored, out>>

\* CMB_BYTES(AS_TYPE(a), AS_TYPE(b)): the case label the pair of tags selects
CMB_BYTES(a, b) ==
    CASE AS_TYPE(a) = VT_NUM /\ AS_TYPE(b) = VT_NUM -> "VT_NUM_NUM"
      [] AS_TYPE(a) = VT_BOOL /\ AS_TYPE(b) = VT_BOOL -> "VT_BOOL_BOOL"
      [] AS_TYPE(a) = VT_BOOL /\ AS_TYPE(b) = VT_NUM -> "VT_BOOL_NUM"
      [] AS_TYPE(a) = VT_NUM /\ AS_TYPE(b) = VT_BOOL -> "VT_NUM_BOOL"
      [] AS_TYPE(a) = VT_OBJ /\ AS_TYPE(b) = VT_OBJ -> "VT_OBJ_OBJ"
      [] OTHER -> "none"

NumericCases == { "VT_NUM_NUM", "VT_BOOL_BOOL", "VT_BOOL_NUM", "VT_NUM_BOOL" }

\* a bool read as a double
BoolNum(v) == VAL_NUM(BoolInt(v))

\* the value each handler pushes in each of its four numeric cases
LT_value(a, b) ==
    CASE CMB_BYTES(a, b) = "VT_NUM_NUM" -> VAL_BOOL(NumLt(a, b))
      [] CMB_BYTES(a, b) = "VT_BOOL_BOOL" -> VAL_BOOL(BoolInt(a) < BoolInt(b))
      [] CMB_BYTES(a, b) = "VT_BOOL_NUM" -> VAL_BOOL(NumLt(BoolNum(a), b))
      [] CMB_BYTES(a, b) = "VT_NUM_BOOL" -> VAL_BOOL(NumLt(a, BoolNum(b)))

LE_value(a, b) ==
    CASE CMB_BYTES(a, b) = "VT_NUM_NUM" -> VAL_BOOL(NumLe(a, b))
      [] CMB_BYTES(a, b) = "VT_BOOL_BOOL" -> VAL_BOOL(BoolInt(a) <= BoolInt(b))
      [] CMB_BYTES(a, b) = "VT_BOOL_NUM" -> VAL_BOOL(NumLe(BoolNum(a), b))
      [] CMB_BYTES(a, b) = "VT_NUM_BOOL" -> VAL_BOOL(NumLe(a, BoolNum(b)))

ADD_value(a, b) ==
    CASE CMB_BYTES(a, b) = "VT_NUM_NUM" -> NumAdd(a, b)
      [] CMB_BYTES(a, b) = "VT_BOOL_BOOL" -> VAL_NUM(BoolInt(a) + BoolInt(b))
      [] CMB_BYTES(a, b) = "VT_BOOL_NUM" -> NumAdd(BoolNum(a), b)
      [] CMB_BYTES(a, b) = "VT_NUM_BOOL" -> NumAdd(a, BoolNum(b))

SUB_value(a, b) ==
    CASE CMB_BYTES(a, b) = "VT_NUM_NUM" -> NumSub(a, b)
      [] CMB_BYTES(a, b) = "VT_BOOL_BOOL" -> VAL_NUM(BoolInt(a) - BoolInt(b))
      [] CMB_BYTES(a, b) = "VT_BOOL_NUM" -> NumSub(BoolNum(a), b)
      [] CMB_BYTES(a, b) = "VT_NUM_BOOL" -> NumSub(a, BoolNum(b))

MUL_value(a, b) ==
    CASE CMB_BYTES(a, b) = "VT_NUM_NUM" -> NumMul(a, b)
      [] CMB_BYTES(a, b) = "VT_BOOL_BOOL" -> VAL_NUM(BoolInt(a) * BoolInt(b))
      [] CMB_BYTES(a, b) = "VT_BOOL_NUM" -> NumMul(BoolNum(a), b)
      [] CMB_BYTES(a, b) = "VT_NUM_BOOL" -> NumMul(a, BoolNum(b))

DIV_value(a, b) ==
    CASE CMB_BYTES(a, b) = "VT_NUM_NUM" -> NumDiv(a, b)
      [] CMB_BYTES(a, b) = "VT_BOOL_BOOL" -> NumDiv(BoolNum(a), BoolNum(b))
      [] CMB_BYTES(a, b) = "VT_BOOL_NUM" -> NumDiv(BoolNum(a), b)
      [] CMB_BYTES(a, b) = "VT_NUM_BOOL" -> NumDiv(a, BoolNum(b))

\* the cases of the handler's switch that end in NEXT
Accepts_numbersOnly(op, a, b) == CMB_BYTES(a, b) = "VT_NUM_NUM"

Accepts(op, a, b) ==
    \/ CMB_BYTES(a, b) \in NumericCases
    \/ op = "ADD" /\ CMB_BYTES(a, b) = "VT_OBJ_OBJ" /\ IS_STR(b) /\ IS_STR(a)

\* concatenate: str_take interns the joined characters
concatenate(a, b) == VAL_STR(a.chars \o b.chars)

TwoOperandsMessage == <<"Operands must be two numbers/booleans.">>

OP_LT ==
    /\ Running("LT")
    /\ IF Accepts("LT", PEEK(1), PEEK(0))
       THEN Continue("LT", PUSH(POPN(stack, 2), LT_value(PEEK(1), PEEK(0))), ip + 1)
       ELSE ERROR("LT", ip + 1, TwoOperandsMessage)
    /\ UNCHANGED <<maps, globals, stored, out>>

OP_LE ==
    /\ Running("LE")
    /\ IF Accepts("LE", PEEK(1), PEEK(0))
       THEN Continue("LE", PUSH(POPN(stack, 2), LE_value(PEEK(1), PEEK(0))), ip + 1)
       ELSE ERROR("LE", ip + 1, TwoOperandsMessage)
    /\ UNCHANGED <<maps, globals, stored, out>>

OP_ADD ==
    /\ Running("ADD")
    /\ IF Accepts("ADD", PEEK(1), PEEK(0))
       THEN IF CMB_BYTES(PEEK(1), PEEK(0)) = "VT_OBJ_OBJ"
            THEN Continue("ADD", PUSH(POPN(stack, 2), concatenate(PEEK(1), PEEK(0))), ip + 1)
            ELSE Continue("ADD", PUSH(POPN(stack, 2), ADD_value(PEEK(1), PEEK(0))), ip + 1)
       ELSE ERROR("ADD", ip + 1, <<"Operands must be two numbers/booleans/strings.">>)
    /\ UNCHANGED <<maps, globals, stored, out>>

OP_SUB ==
    /\ Running("SUB")
    /\ IF Accepts("SUB", PEEK(1), PEEK(0))
       THEN Continue("SUB", PUSH(POPN(stack, 2), SUB_value(PEEK(1), PEEK(0))), ip + 1)
       ELSE ERROR("SUB", ip + 1, TwoOperandsMessage)
    /\ UNCHANGED <<maps, globals, stored, out>>

OP_MUL ==
    /\ Running("MUL")
    /\ IF Accepts("MUL", PEEK(1), PEEK(0))
       THEN Continue("MUL", PUSH(POPN(stack, 2), MUL_value(PEEK(1), PEEK(0))), ip + 1)
       ELSE ERROR("MUL", ip + 1, TwoOperandsMessage)
    /\ UNCHANGED <<maps, globals, stored, out>>

OP_DIV ==
    /\ Running("DIV")
    /\ IF Accepts("DIV", PEEK(1), PEEK(0))
       THEN Continue("DIV", PUSH(POPN(stack, 2), DIV_value(PEEK(1), PEEK(0))), ip + 1)
       ELSE ERROR("DIV", ip + 1, TwoOperandsMessage)
    /\ UNCHANGED <<maps, globals, stored, out>>

\* READ_STR(): the characters of the string constant the operand names
READ_STR == READ_CONST.chars

UndefinedMessage(name) == <<"Undefined variable '%s'.", name>>

OP_DEF ==
    /\ Running("DEF")
    /\ globals' = tab_set(globals, READ_STR, PEEK(0))
    /\ stored' = tab_set(stored, READ_STR, PEEK(0))
    /\ Continue("DEF", POPN(stack, 1), ip + 2)
    /\ UNCHANGED <<maps, out>>

OP_GLD_nil ==
    /\ Running("GLD")
    /\ Continue("GLD",
                PUSH(stack, IF tab_has(globals, READ_STR) THEN tab_get(globals, READ_STR)
                            ELSE VAL_NIL),
                ip + 2)
    /\ UNCHANGED <<maps, globals, stored, out>>

OP_GLD ==
    /\ Running("GLD")
    /\ IF ~tab_has(globals, READ_STR)
       THEN ERROR("GLD", ip + 2, UndefinedMessage(READ_STR))
       ELSE Continue("GLD", PUSH(stack, tab_get(globals, READ_STR)), ip + 2)
    /\ UNCHANGED <<maps, globals, stored, out>>

\* the globals after GST found the name new: the inserted key removed again
GST_undo_none(table, name) == table

GST_undo(table, name) == tab_remove(table, name)

OP_GST ==
    /\ Running("GST")
    /\ IF ~tab_has(globals, READ_STR)
       THEN /\ globals' = GST_undo(tab_set(globals, READ_STR, PEEK(0)), READ_STR)
            /\ ERROR("GST", ip + 2, UndefinedMessage(READ_STR))
            /\ UNCHANGED stored
       ELSE /\ globals' = tab_set(globals, READ_STR, PEEK(0))
            /\ stored' = tab_set(stored, READ_STR, PEEK(0))
            /\ Continue("GST", stack, ip + 2)
    /\ UNCHANGED <<maps, out>>

OP_LD ==
    /\ Running("LD")
    /\ Continue("LD", PUSH(stack, stack[STACK + Operand + 1]), ip + 2)
    /\ UNCHANGED <<maps, globals, stored, out>>

OP_ST ==
    /\ Running("ST")
    /\ Continue("ST", [stack EXCEPT ![STACK + Operand + 1] = PEEK(0)], ip + 2)
    /\ UNCHANGED <<maps, globals, stored, out>>

OP_JMP ==
    /\ Running("JMP")
    /\ Continue("JMP", stack, ip + 3 + Short)
    /\ UNCHANGED <<maps, globals, stored, out>>

OP_JMPF ==
    /\ Running("JMPF")
    /\ Continue("JMPF", stack, IF IS_FALSEY(PEEK(0)) THEN ip + 3 + Short ELSE ip + 3)
    /\ UNCHANGED <<maps, globals, stored, out>>

\* the map object a map value refers to
AS_MAP(v) == maps[v.id]

\* the hash OP_MAP fills: key Number(i) holds PEEK(i), for i = count-1 down to 0
MAP_hash(count) ==
    [key \in { VAL_NUM(i) : i \in 0..(count - 1) } |-> PEEK(key.n)]

OP_MAP ==
    /\ Running("MAP")
    /\ LET count == Operand
       IN /\ maps' = Append(maps, [hash |-> MAP_hash(count), table |-> EmptyTab])
          /\ Continue("MAP", PUSH(POPN(stack, count), VAL_MAP(Len(maps) + 1)), ip + 2)
    /\ UNCHANGED <<globals, stored, out>>

MapMessage == <<"Operands must be a map.">>
KeyMessage == <<"Operands must be a number or string.">>

OP_GET ==
    /\ Running("GET")
    /\ IF IS_MAP(PEEK(0))
       THEN LET map == AS_MAP(PEEK(0))
                value == IF tab_has(map.table, READ_STR)
                         THEN tab_get(map.table, READ_STR) ELSE VAL_NIL
            IN Continue("GET", PUSH(POPN(stack, 1), value), ip + 2)
       ELSE ERROR("GET", ip + 1, MapMessage)
    /\ UNCHANGED <<maps, globals, stored, out>>

OP_SET ==
    /\ Running("SET")
    /\ IF IS_MAP(PEEK(1))
       THEN /\ maps' = [maps EXCEPT ![PEEK(1).id].table = tab_set(@, READ_STR, PEEK(0))]
            /\ Continue("SET", PUSH(POPN(stack, 2), PEEK(0)), ip + 2)
       ELSE /\ ERROR("SET", ip + 1, MapMessage)
            /\ UNCHANGED maps
    /\ UNCHANGED <<globals, stored, out>>

OP_GETI ==
    /\ Running("GETI")
    /\ IF IS_MAP(PEEK(1))
       THEN LET map == AS_MAP(PEEK(1))
                key == PEEK(0)
            IN IF IS_NUM(key)
               THEN Continue("GETI",
                             PUSH(POPN(stack, 2),
                                  IF hash_has(map.hash, key) THEN hash_get(map.hash, key)
                                  ELSE VAL_NIL),
                             ip + 1)
               ELSE IF IS_STR(key)
               THEN Continue("GETI",
                             PUSH(POPN(stack, 2),
                                  IF tab_has(map.table, key.chars)
                                  THEN tab_get(map.table, key.chars) ELSE VAL_NIL),
                             ip + 1)
               ELSE ERROR("GETI", ip + 1, KeyMessage)
       ELSE ERROR("GETI", ip + 1, MapMessage)
    /\ UNCHANGED <<maps, globals, stored, out>>

OP_SETI_oneStore ==
    /\ Running("SETI")
    /\ IF IS_MAP(PEEK(2))
       THEN LET key == PEEK(1)
                value == PEEK(0)
            IN IF IS_NUM(key)
               THEN /\ maps' = [maps EXCEPT ![PEEK(2).id].hash = hash_set(@, key, value)]
                    /\ Continue("SETI", PUSH(POPN(stack, 3), value), ip + 1)
               ELSE IF IS_STR(key)
               THEN /\ maps' = [maps EXCEPT ![PEEK(2).id].hash = hash_set(@, key, value)]
                    /\ Continue("SETI", PUSH(POPN(stack, 3), value), ip + 1)
               ELSE /\ ERROR("SETI", ip + 1, KeyMessage)
                    /\ UNCHANGED maps
       ELSE /\ ERROR("SETI", ip + 1, MapMessage)
            /\ UNCHANGED maps
    /\ UNCHANGED <<globals, stored, out>>

OP_SETI ==
    /\ Running("SETI")
    /\ IF IS_MAP(PEEK(2))
       THEN LET key == PEEK(1)
                value == PEEK(0)
            IN IF IS_NUM(key)
               THEN /\ maps' = [maps EXCEPT ![PEEK(2).id].hash = hash_set(@, key, value)]
                    /\ Continue("SETI", PUSH(POPN(stack, 3), value), ip + 1)
               ELSE IF IS_STR(key)
               THEN /\ maps' = [maps EXCEPT ![PEEK(2).id].table =
                                                tab_set(@, key.chars, value)]
                    /\ Continue("SETI", PUSH(POPN(stack, 3), value), ip + 1)
               ELSE /\ ERROR("SETI", ip + 1, KeyMessage)
                    /\ UNCHANGED maps
       ELSE /\ ERROR("SETI", ip + 1, MapMessage)
            /\ UNCHANGED maps
    /\ UNCHANGED <<globals, stored, out>>

\* CODE_ERR: the default case of the dispatch
OP_BAD ==
    /\ Running("BAD")
    /\ ERROR("BAD", ip + 1, <<"Bad opcode, got %d!", Byte(ip)>>)
    /\ UNCHANGED <<maps, globals, stored, out>>

\* what a run that left defined behaviour can be seen to return
UndefinedOutcomes == { "OK", "RUNTIME_ERROR", "CRASH" }

\* The instruction at ip reads or writes outside the code, the constants or
\* the stack: any outcome is possible.
Undefined ==
    /\ phase = "run"
    /\ ~Defined
    /\ undefined' = TRUE
    /\ phase' = "done"
    /\ result' \in UndefinedOutcomes
    /\ UNCHANGED <<heap, scen, parser, other, hostCalls, funs, maps, globals, stack, top, frames, frameCount, ip,
                   out, err, marks, last, home, blk, stored>>

(***************************************************************************)
(* The embedding API.                                                      *)
(***************************************************************************)
\* set_global(vm, name, value): two pushes, tab_set, two pops
set_global ==
    /\ phase = "host"
    /\ hostCalls < MaxHostCalls
    /\ \E g \in HostGlobals :
          /\ globals' = tab_set(globals, g.name, g.value)
          /\ stored' = tab_set(stored, g.name, g.value)
    /\ hostCalls' = hostCalls + 1
    /\ UNCHANGED <<heap, scen, parser, other, phase, funs, maps, stack, top, frames, frameCount, ip, result,
                   undefined, out, err, marks, last, home, blk>>

\* the frame prepareCall pushes for the script: slot 0 is the script itself
ScriptFrame(height) == [function |-> "script", ip |-> 0, slots |-> height - 0 - 1]

\* the number of compiler locals the marks name
LocalsOf(mk) ==
    LET idx == { mk[i].idx + 1 : i \in { j \in 1..Len(mk) : mk[j].kind = "decl" } }
    IN IF idx = {} THEN 0 ELSE CHOOSE n \in idx : \A m \in idx : m <= n

(***************************************************************************)
(* Sources with many constants.  A source that begins with k expression    *)
(* statements  1; 2; ... ; each a number, has k constants in its pool when *)
(* the compiler reaches what follows; the parser is taken up there, in the *)
(* state compile leaves after them, which NumberedAgrees checks against    *)
(* compile itself for the short prefixes.                                  *)
(***************************************************************************)
NumberedValue(i) == i % 7

\* the tokens of 1; 2; ... k;
NumberedTokens(k) ==
    [j \in 1..(2 * k) |-> IF j % 2 = 1 THEN TokNum(NumberedValue((j + 1) \div 2)) ELSE SEMI]

\* the chunk after them: k times OP_CONST i, OP_POP, each OP_POP emitted with
\* the lexer behind the token after the semicolon, if there is one
NumberedChunk(k, more) ==
    [count |-> 3 * k,
     capacity |-> ((3 * k + CHUNK_CODEPAGE - 1) \div CHUNK_CODEPAGE) * CHUNK_CODEPAGE,
     code |-> <<>> \o [j \in 1..(3 * k) |->
                         CASE (j - 1) % 3 = 0 -> OP("CONST")
                           [] (j - 1) % 3 = 1 -> (j - 1) \div 3
                           [] OTHER -> OP("POP")],
     lines |-> <<>> \o [j \in 1..(3 * k) |->
                          65536 + 2 * ((j - 1) \div 3)
                             + (IF (j - 1) % 3 = 2 /\ (j < 3 * k \/ more) THEN 4 ELSE 3)],
     constants |-> <<>> \o [i \in 1..k |-> VAL_NUM(NumberedValue(i))]]

\* the parser before the first token of rest is scanned
Numbered_before(k, rest) ==
    [toks |-> NumberedTokens(k) \o rest, pos |-> 2 * k + 1,
     current |-> IF k = 0 THEN TokEOF ELSE SEMI, previous |-> TokEOF,
     hadError |-> FALSE, panicMode |-> FALSE, errors |-> <<>>,
     chunk |-> NumberedChunk(k, rest # <<>>), locals |-> <<>>, scopeDepth |-> 0,
     marks |-> <<>>, undefined |-> FALSE, log |-> <<>>]

Numbered(k, rest) == advance(Numbered_before(k, rest))

\* compile from there on: the loop of compile, endCompiler
compileNumbered(k, rest) == endCompiler(compileLoop(Numbered(k, rest)))

\* vm_dofile up to the first instruction: compile, then on success PUSH(script),
\* vm_call(vm, script, 0) and LOAD_FRAME
vm_dofile ==
    /\ phase = "host"
    /\ scen.kind \in {"file", "numbered"}
    /\ parser' = IF scen.kind = "file" THEN compile(scen.src)
                  ELSE compileNumbered(scen.k, scen.src)
    /\ LET p == parser'
           mk == p.marks
           entryBlk == [i \in 1..Len(mk) |-> [entry |-> {}, exit |-> {}]]
           entryHome == [i \in 1..LocalsOf(mk) |-> {}]
       IN IF p.hadError \/ p.undefined
          THEN /\ result' = "COMPILE_ERROR"
               /\ phase' = "done"
               /\ UNCHANGED <<funs, stack, top, frames, frameCount, marks, home, blk>>
          ELSE /\ funs' = [funs EXCEPT !["script"] =
                              Fun("script", 0, p.chunk.code, p.chunk.constants)]
               /\ stack' = PUSH(stack, VAL_FUN("script"))
               /\ top' = top + 1
               /\ frames' = Append(frames, ScriptFrame(top + 1))
               /\ frameCount' = frameCount + 1
               /\ marks' = mk
               /\ home' = HomeAt(mk, entryHome, 0, top + 1)
               /\ blk' = BlkAt(mk, entryBlk, 0, top + 1)
               /\ phase' = "run"
               /\ UNCHANGED result
    /\ UNCHANGED <<heap, scen, other, hostCalls, maps, globals, ip, undefined, out, err, last,
                   stored>>

\* a host running an assembled function as vm_dofile runs the script:
\* PUSH(function), vm_call(vm, function, 0), vm_execute
vm_run ==
    /\ phase = "host"
    /\ scen.kind = "asm"
    /\ stack' = PUSH(stack, VAL_FUN("script"))
    /\ top' = top + 1
    /\ frames' = Append(frames, ScriptFrame(top + 1))
    /\ frameCount' = frameCount + 1
    /\ phase' = "run"
    /\ UNCHANGED <<heap, scen, parser, other, hostCalls, funs, maps, globals, ip, result, undefined, out, err,
                   marks, last, home, blk, stored>>

Next ==
    \/ set_global
    \/ vm_dofile
    \/ vm_run
    \/ OP_PRINT
    \/ OP_POP
    \/ OP_NIL
    \/ OP_TRUE
    \/ OP_FALSE
    \/ OP_CONST
    \/ OP_CALL
    \/ OP_RET
    \/ OP_NOT
    \/ OP_NEG
    \/ OP_EQ
    \/ OP_LT
    \/ OP_LE
    \/ OP_ADD
    \/ OP_SUB
    \/ OP_MUL
    \/ OP_DIV
    \/ OP_DEF
    \/ OP_GLD
    \/ OP_GST
    \/ OP_LD
    \/ OP_ST
    \/ OP_JMP
    \/ OP_JMPF
    \/ OP_MAP
    \/ OP_GET
    \/ OP_SET
    \/ OP_GETI
    \/ OP_SETI
    \/ OP_BAD
    \/ Undefined

Spec == Init /\ [][Next]_vars

(***************************************************************************)
(* Properties.  last is the instruction executed last with the state it    *)
(* started from; the unprimed variables are the state it left.             *)
(***************************************************************************)
\* the operands the last instruction found on the stack, top first
Was(i) == last.stack[last.top - i]
\* the name the last instruction's operand names in its function's constants
LastName == funs[last.fn].constants[last.operand + 1].chars
\* the last instruction was emitted by the compiler at a place it marked as kind
AtMark(kind) ==
    /\ scen.kind = "file"
    /\ last.fn = "script"
    /\ \E m \in MarksOf(kind) : marks[m].at = last.at
LastError == err[Len(err)]

\* C1: once an instruction has raised a runtime error, vm_execute has
\* returned RUNTIME_ERROR, the value stack is empty and the frame count is 0,
\* whatever the stack height and the frame depth were before.
C1_ErrorResets ==
    last.error =>
        /\ phase = "done"
        /\ result = "RUNTIME_ERROR"
        /\ top = 0
        /\ stack = <<>>
        /\ frameCount = 0
        /\ frames = <<>>

\* an error raised two calls deep with values below the frames
C1_Witness ==
    /\ last.error
    /\ last.frameCount > 2
    /\ last.top > 3
    /\ result = "RUNTIME_ERROR"
    /\ top = 0
    /\ frameCount = 0

\* C2: the operand the compiler emits for LD of a block-local variable
\* addresses, from the frame's slot base, the stack slot where the
\* variable's value was left by its declaration.
C2_LocalSlot ==
    (last.op = "LD" /\ AtMark("ld") /\ ~undefined) =>
        home[last.operand + 1] = {last.slots + last.operand}

\* C3: once the instructions of a compiled block have been executed, the
\* stack height is what it was before the block's first instruction.
C3_BlockHeight ==
    ~undefined => \A i \in 1..Len(blk) : blk[i].exit # {} => blk[i].exit = blk[i].entry

\* C4: the PRINT of a print statement prints the one value of its expression,
\* pops that one value and continues at the byte after the bytes the compiler
\* emitted for it.
C4_PrintStatement ==
    (last.op = "PRINT" /\ AtMark("print")) =>
        /\ ~undefined
        /\ ip = last.at + 1
        /\ top = last.top - 1
        /\ out # <<>>
        /\ out[Len(out)] = <<Was(0)>>

\* C5: a compiled script run to its final RET returns OK with frame count 0
\* and the stack at the height it had before the script was pushed.
C5_FinalRet ==
    (scen.kind = "file" /\ phase = "done" /\ result = "OK") =>
        /\ ~undefined
        /\ frameCount = 0
        /\ top = 0

\* C6: GLD pushes the value stored last under the name by DEF, a successful
\* GST or set_global; for a name absent from globals it pushes nothing and
\* ends the run with RUNTIME_ERROR and "Undefined variable '<name>'.".
C6_GlobalLoad ==
    last.op = "GLD" =>
        IF tab_has(last.globals, LastName)
        THEN /\ ~last.error
             /\ tab_has(stored, LastName)
             /\ stack = PUSH(last.stack, tab_get(stored, LastName))
             /\ top = last.top + 1
        ELSE /\ last.error
             /\ ~tab_has(stored, LastName)
             /\ result = "RUNTIME_ERROR"
             /\ LastError.message = <<"Undefined variable '%s'.", LastName>>
             /\ stack = <<>>

\* a load that pushed 0, the value stored last under the name
C6_Witness ==
    /\ last.op = "GLD"
    /\ ~last.error
    /\ stack[top] = VAL_NUM(0)
    /\ tab_get(stored, LastName) = VAL_NUM(0)

\* C7: GST of a name absent from globals ends in a runtime error and leaves
\* globals exactly as it was; GST of a defined name overwrites its value
\* with the top of the stack and pops nothing.
C7_GlobalStore ==
    last.op = "GST" =>
        IF tab_has(last.globals, LastName)
        THEN /\ ~last.error
             /\ globals = [last.globals EXCEPT ![LastName] = Was(0)]
             /\ stack = last.stack
             /\ top = last.top
        ELSE /\ last.error
             /\ result = "RUNTIME_ERROR"
             /\ globals = last.globals
             /\ ~tab_has(globals, LastName)

\* a store to an undefined name while another name is defined
C7_Witness ==
    /\ last.op = "GST"
    /\ last.error
    /\ ~tab_has(last.globals, LastName)
    /\ DOMAIN globals # {}
    /\ globals = last.globals

\* the instructions with the four numeric operand cases
Arithmetic == { "ADD", "SUB", "MUL", "DIV", "LT", "LE" }

\* a Bool coerced to a Number: true to 1, false to 0
Coerced(v) == IF IS_BOOL(v) THEN (IF v = VAL_TRUE THEN VAL_NUM(1) ELSE VAL_NUM(0)) ELSE v

\* the pairs of operand types the instruction op is specified to accept
Specified(op, a, b) ==
    \/ AS_TYPE(a) \in {VT_NUM, VT_BOOL} /\ AS_TYPE(b) \in {VT_NUM, VT_BOOL}
    \/ op = "ADD" /\ IS_STR(a) /\ IS_STR(b)

\* the result op is specified to push for accepted operands a and b
Result(op, a, b) ==
    CASE op = "ADD" /\ IS_STR(a) -> VAL_STR(a.chars \o b.chars)
      [] op = "ADD" /\ ~IS_STR(a) -> NumAdd(Coerced(a), Coerced(b))
      [] op = "SUB" -> NumSub(Coerced(a), Coerced(b))
      [] op = "MUL" -> NumMul(Coerced(a), Coerced(b))
      [] op = "DIV" -> NumDiv(Coerced(a), Coerced(b))
      [] op = "LT" -> VAL_BOOL(NumLt(Coerced(a), Coerced(b)))
      [] op = "LE" -> VAL_BOOL(NumLe(Coerced(a), Coerced(b)))

\* C8: ADD, SUB, MUL, DIV, LT and LE succeed exactly for the operand types
\* (Number,Number), (Bool,Bool), (Bool,Number), (Number,Bool), and ADD also
\* for (String,String); they then pop both operands and push the result
\* computed with Bool coerced to Number (or the concatenation); for every
\* other pair of types they end in a runtime error.
C8_OperandTypes ==
    last.op \in Arithmetic =>
        IF Specified(last.op, Was(1), Was(0))
        THEN /\ ~last.error
             /\ stack = PUSH(POPN(last.stack, 2), Result(last.op, Was(1), Was(0)))
             /\ top = last.top - 1
        ELSE /\ last.error
             /\ result = "RUNTIME_ERROR"

\* true + 1 has pushed 2
C8_Witness ==
    /\ last.op = "ADD"
    /\ Was(1) = VAL_TRUE
    /\ Was(0) = VAL_NUM(1)
    /\ ~last.error
    /\ stack[top] = VAL_NUM(2)

\* the values is_falsey is specified to hold for
Falsey == { VAL_NIL, VAL_FALSE, VAL_NUM(0) }

\* the jump offset of the last instruction
LastShort == funs[last.fn].code[last.at + 2] * 256 + funs[last.fn].code[last.at + 3]

\* C9: is_falsey holds of Nil, Bool(false) and Number(+0.0) and of no other
\* value; NOT replaces the top of the stack by Bool(is_falsey(top)), and
\* JMPF jumps exactly when the top of the stack is one of these three values.
C9_Falsey ==
    /\ \A i \in 1..top : IS_FALSEY(stack[i]) <=> stack[i] \in Falsey
    /\ last.op = "NOT" =>
          /\ ~last.error
          /\ IS_FALSEY(Was(0)) <=> Was(0) \in Falsey
          /\ stack = PUSH(POPN(last.stack, 1), VAL_BOOL(Was(0) \in Falsey))
    /\ last.op = "JMPF" =>
          /\ ~last.error
          /\ ip = IF Was(0) \in Falsey THEN last.at + 3 + LastShort ELSE last.at + 3

\* NOT of -0.0 has pushed false
C9_Witness ==
    /\ last.op = "NOT"
    /\ Was(0) = NumNeg(VAL_NUM(0))
    /\ Was(0) # VAL_NUM(0)
    /\ stack[top] = VAL_FALSE

(***************************************************************************)
(* Expressions.  A second specification compiles one expression with       *)
(* expression(): operand i is the number literal i, each operand has at    *)
(* most one unary operator before it, and a binary operator stands between *)
(* two operands.                                                           *)
(***************************************************************************)
UnaryTokens == { "none", "TOKEN_BANG", "TOKEN_MINUS" }
BinaryTokens ==
    { "TOKEN_EQUAL_EQUAL", "TOKEN_BANG_EQUAL", "TOKEN_LESS", "TOKEN_LESS_EQUAL",
      "TOKEN_GREATER", "TOKEN_GREATER_EQUAL", "TOKEN_PLUS", "TOKEN_MINUS", "TOKEN_STAR",
      "TOKEN_SLASH" }

\* an expression: the unary operators of its operands, the binary operators between them
Expression(un, bin) == [un |-> un, bin |-> bin]

\* the tokens of operand i with its unary operator
OperandTokens(e, i) ==
    (IF e.un[i] = "none" THEN <<>> ELSE <<Tok(e.un[i])>>) \o <<TokNum(i)>>

RECURSIVE ExprTokens(_, _)
ExprTokens(e, i) ==
    IF i = Len(e.un) THEN OperandTokens(e, i)
    ELSE OperandTokens(e, i) \o <<Tok(e.bin[i])>> \o ExprTokens(e, i + 1)

InitExpr ==
    /\ \E n \in 1..MaxOperands :
          \E un \in [1..n -> UnaryTokens], bin \in [1..(n - 1) -> BinaryTokens] :
             scen = [kind |-> "expr", src |-> ExprTokens(Expression(un, bin), 1),
                     main |-> EmptyFun, expr |-> Expression(un, bin)]
    /\ parser = initCompiler(<<>>)
    /\ other = NoClone
    /\ phase = "host"
    /\ hostCalls = 0
    /\ funs = [name \in (DOMAIN Helpers) \cup {"script"} |->
                 IF name = "script" THEN scen.main ELSE Helpers[name]]
    /\ maps = <<>>
    /\ globals = EmptyTab
    /\ stack = <<>>
    /\ top = 0
    /\ frames = <<>>
    /\ frameCount = 0
    /\ ip = 0
    /\ result = "NONE"
    /\ undefined = FALSE
    /\ out = <<>>
    /\ err = <<>>
    /\ marks = <<>>
    /\ last = NoLast
    /\ home = <<>>
    /\ blk = <<>>
    /\ stored = EmptyTab
    /\ heap = NoHeap

\* the start of compile (initCompiler, advance) and one call of expression()
compileExpression(toks) == expression(advance(initCompiler(toks)))

\* the chunk expression() leaves becomes the code of the script function
Compiled(p) ==
    /\ funs' = [funs EXCEPT !["script"] = Fun("script", 0, p.chunk.code, p.chunk.constants)]
    /\ result' = IF p.hadError \/ p.undefined THEN "COMPILE_ERROR" ELSE "OK"
    /\ err' = p.errors

ParseExpression ==
    /\ phase = "host"
    /\ scen.kind = "expr"
    /\ Compiled(compileExpression(scen.src))
    /\ phase' = "done"
    /\ UNCHANGED <<heap, scen, parser, other, hostCalls, maps, globals, stack, top, frames, frameCount, ip,
                   undefined, out, marks, last, home, blk, stored>>

NextExpr == ParseExpression

SpecExpr == InitExpr /\ [][NextExpr]_vars

(***************************************************************************)
(* The parse tree of the grammar                                           *)
(*   equality < comparison < term < factor < unary,                        *)
(* binary operators of one level associating to the left, and its          *)
(* post-order.                                                             *)
(***************************************************************************)
Level(tok) ==
    CASE tok \in {"TOKEN_EQUAL_EQUAL", "TOKEN_BANG_EQUAL"} -> 1
      [] tok \in {"TOKEN_LESS", "TOKEN_LESS_EQUAL", "TOKEN_GREATER", "TOKEN_GREATER_EQUAL"} -> 2
      [] tok \in {"TOKEN_PLUS", "TOKEN_MINUS"} -> 3
      [] tok \in {"TOKEN_STAR", "TOKEN_SLASH"} -> 4

\* the instructions of an operator node
BinaryCode(tok) ==
    CASE tok = "TOKEN_EQUAL_EQUAL" -> I("EQ")
      [] tok = "TOKEN_BANG_EQUAL" -> I("EQ") \o I("NOT")
      [] tok = "TOKEN_LESS" -> I("LT")
      [] tok = "TOKEN_LESS_EQUAL" -> I("LE")
      [] tok = "TOKEN_GREATER" -> I("LE") \o I("NOT")
      [] tok = "TOKEN_GREATER_EQUAL" -> I("LT") \o I("NOT")
      [] tok = "TOKEN_PLUS" -> I("ADD")
      [] tok = "TOKEN_MINUS" -> I("SUB")
      [] tok = "TOKEN_STAR" -> I("MUL")
      [] tok = "TOKEN_SLASH" -> I("DIV")

UnaryCode(tok) ==
    CASE tok = "TOKEN_BANG" -> I("NOT")
      [] tok = "TOKEN_MINUS" -> I("NEG")
      [] OTHER -> <<>>

\* the root of the tree over operands i..j: the last of the operators of the
\* lowest level between them
Root(e, i, j) ==
    CHOOSE r \in i..(j - 1) :
        /\ \A q \in i..(j - 1) : Level(e.bin[r]) <= Level(e.bin[q])
        /\ \A q \in (r + 1)..(j - 1) : Level(e.bin[r]) < Level(e.bin[q])

RECURSIVE PostOrder(_, _, _)
PostOrder(e, i, j) ==
    IF i = j THEN I1("CONST", i - 1) \o UnaryCode(e.un[i])
    ELSE PostOrder(e, i, Root(e, i, j)) \o PostOrder(e, Root(e, i, j) + 1, j)
         \o BinaryCode(e.bin[Root(e, i, j)])

\* C10: the instructions parsePrecedence emits for an expression of number
\* literals, unary ! and - and the ten binary operators are the post-order of
\* its parse tree under the precedence levels equality < comparison < term <
\* factor < unary with left-associative binary operators.
C10_PostOrder ==
    (scen.kind = "expr" /\ phase = "done") =>
        /\ result = "OK"
        /\ funs["script"].code = PostOrder(scen.expr, 1, Len(scen.expr.un))
        /\ funs["script"].constants = [i \in 1..Len(scen.expr.un) |-> VAL_NUM(i)]

\* 1 - 2 - 3 has emitted SUB for 1 and 2 before the constant 3
C10_Witness ==
    /\ scen.kind = "expr"
    /\ phase = "done"
    /\ scen.expr.bin = <<"TOKEN_MINUS", "TOKEN_MINUS">>
    /\ scen.expr.un = <<"none", "none", "none">>
    /\ funs["script"].code =
          Cat(<<I1("CONST", 0), I1("CONST", 1), I("SUB"), I1("CONST", 2), I("SUB")>>)

(***************************************************************************)
(* Compilation.  A third specification runs vm_dofile on source files made *)
(* of at most MaxFragments fragments: declarations, assignments to valid   *)
(* and invalid targets, braces, a token the lexer reports as an error, an  *)
(* expression that goes on after a syntax error, a declaration with an     *)
(* error token inside and a block that opens a second one.                 *)
(***************************************************************************)
Fragments ==
    { <<Tok("TOKEN_VAR"), TokId("a"), Tok("TOKEN_EQUAL"), TokNum(1), SEMI>>,
      <<Tok("TOKEN_VAR"), TokId("a"), Tok("TOKEN_EQUAL"), TokId("a"), SEMI>>,
      <<TokId("a"), Tok("TOKEN_EQUAL"), TokNum(2), SEMI>>,
      <<TokId("a"), Tok("TOKEN_PLUS"), TokId("b"), Tok("TOKEN_EQUAL"), TokId("c"), SEMI>>,
      <<TokNum(1), Tok("TOKEN_EQUAL"), TokNum(2), SEMI>>,
      <<Tok("TOKEN_LEFT_PAREN"), TokId("a"), Tok("TOKEN_RIGHT_PAREN"), Tok("TOKEN_EQUAL"),
        TokNum(1), SEMI>>,
      <<Tok("TOKEN_LEFT_BRACE")>>,
      <<Tok("TOKEN_RIGHT_BRACE")>>,
      <<TokErr("Unexpected character.")>>,
      <<TokNum(1), Tok("TOKEN_PLUS"), Tok("TOKEN_RIGHT_PAREN"), Tok("TOKEN_PLUS")>>,
      <<Tok("TOKEN_VAR"), TokErr("Unexpected character."), TokId("a"), Tok("TOKEN_EQUAL"),
        TokNum(1), SEMI>>,
      <<Tok("TOKEN_LEFT_BRACE"), Tok("TOKEN_VAR"), TokId("a"), Tok("TOKEN_EQUAL"), TokNum(1),
        SEMI, Tok("TOKEN_LEFT_BRACE")>> }

InitCompile ==
    /\ \E n \in 0..MaxFragments : \E items \in [1..n -> Fragments] :
          scen = FileScenario(items)
    /\ parser = initCompiler(<<>>)
    /\ other = NoClone
    /\ phase = "host"
    /\ hostCalls = 0
    /\ funs = [name \in (DOMAIN Helpers) \cup {"script"} |->
                 IF name = "script" THEN scen.main ELSE Helpers[name]]
    /\ maps = <<>>
    /\ globals = EmptyTab
    /\ stack = <<>>
    /\ top = 0
    /\ frames = <<>>
    /\ frameCount = 0
    /\ ip = 0
    /\ result = "NONE"
    /\ undefined = FALSE
    /\ out = <<>>
    /\ err = <<>>
    /\ marks = <<>>
    /\ last = NoLast
    /\ home = <<>>
    /\ blk = <<>>
    /\ stored = EmptyTab
    /\ heap = NoHeap

NextCompile == vm_dofile

SpecCompile == InitCompile /\ [][NextCompile]_vars

\* the parser's log once compile has returned
Log == parser.log
LogAt(k, ev) == k \in 1..Len(Log) /\ Log[k].ev = ev
Says(k, message) ==
    /\ k \in 1..Len(Log)
    /\ Log[k].ev \in {"error", "quiet"}
    /\ Log[k].name = message
Compiled_file == scen.kind = "file" /\ phase # "host"

(***************************************************************************)
(* Assignment targets.                                                     *)
(***************************************************************************)
\* an error, reported or suppressed, came before entry k with no synchronize since
Panicking(k) ==
    \E j \in 1..(k - 1) :
       /\ Log[j].ev = "error"
       /\ \A i \in (j + 1)..(k - 1) : Log[i].ev # "synchronize"

\* the index of the last token before i that is no error token, 0 if none
RECURSIVE PrevReal(_, _)
PrevReal(toks, i) ==
    IF i <= 1 THEN 0
    ELSE IF toks[i - 1].type # "TOKEN_ERROR" THEN i - 1
    ELSE PrevReal(toks, i - 1)

\* the tokens after which an expression is parsed at assignment precedence
ExpressionStarters ==
    { "TOKEN_SEMICOLON", "TOKEN_LEFT_BRACE", "TOKEN_RIGHT_BRACE", "TOKEN_LEFT_PAREN",
      "TOKEN_EQUAL", "TOKEN_PRINT" }

\* the token at index i of the source is a variable name that starts an
\* expression parsed at assignment precedence
StartsAssignment(toks, i) ==
    /\ i \in 1..Len(toks)
    /\ toks[i].type = "TOKEN_IDENTIFIER"
    /\ \/ PrevReal(toks, i) = 0
       \/ toks[PrevReal(toks, i)].type \in ExpressionStarters

\* the operand bytes the compiler emits after an opcode
EmittedOperands(name) ==
    IF name \in {"CONST", "DEF", "GLD", "GST", "LD", "ST"} THEN 1
    ELSE IF name \in {"CONSTL", "DEFL", "GLDL", "GSTL"} THEN 2
    ELSE 0

\* the instructions are walked a span of bytes at a time
InstructionSpan == 16

Decodable(code, i) == i < Len(code) /\ code[i + 1] + 1 \in 1..Len(OPCODES)

NextInstruction(code, i) == i + 1 + EmittedOperands(OPCODES[code[i + 1] + 1])

\* the offset of the first instruction at or after stop, walking from offset i
RECURSIVE SpanEnd(_, _, _)
SpanEnd(code, i, stop) ==
    IF i >= stop \/ ~Decodable(code, i) THEN i
    ELSE SpanEnd(code, NextInstruction(code, i), stop)

\* the offsets in code, from offset i up to stop, of the instructions named in ops
RECURSIVE InstructionsIn(_, _, _, _)
InstructionsIn(code, i, stop, ops) ==
    IF i >= stop \/ ~Decodable(code, i) THEN {}
    ELSE (IF OPCODES[code[i + 1] + 1] \in ops THEN {i} ELSE {})
         \cup InstructionsIn(code, NextInstruction(code, i), stop, ops)

\* the offsets in code, from offset i on, of the instructions named in ops
RECURSIVE InstructionsAt(_, _, _)
InstructionsAt(code, i, ops) ==
    IF ~Decodable(code, i) THEN {}
    ELSE InstructionsIn(code, i, i + InstructionSpan, ops)
         \cup InstructionsAt(code, SpanEnd(code, i, i + InstructionSpan), ops)

Stores == InstructionsAt(parser.chunk.code, 0, {"ST", "GST", "GSTL"})
Assigns == { k \in 1..Len(Log) : Log[k].ev = "assign" }
Targets == { k \in 1..Len(Log) : Log[k].ev = "target" }

\* C11 as stated: every '=' left over after an expression parsed at
\* assignment precedence is reported as 'Invalid assignment target.'
C11_Reported ==
    Compiled_file =>
       \A k \in Targets : LogAt(k + 1, "error") /\ Says(k + 1, "Invalid assignment target.")

\* C11: an '=' is compiled as an assignment only directly after a variable
\* name that starts an expression parsed at assignment precedence, and one
\* store instruction is emitted per such assignment; every other '=' left
\* over after an expression parsed at assignment precedence makes compile
\* fail and emits no store, and 'Invalid assignment target.' is reported
\* unless an earlier error of the same statement has set panic mode, which
\* suppresses the message
C11_InvalidTarget ==
    Compiled_file =>
       /\ \A k \in Targets :
             /\ Says(k + 1, "Invalid assignment target.")
             /\ LogAt(k + 1, "quiet") <=> Panicking(k)
             /\ result = "COMPILE_ERROR"
       /\ \A k \in Assigns :
             StartsAssignment(scen.src, PrevReal(scen.src, PrevReal(scen.src, Log[k].n)))
       /\ Cardinality(Stores) = Cardinality(Assigns)

C11_Witness ==
    /\ Compiled_file
    /\ \E k \in Targets : LogAt(k + 1, "error")
    /\ \E k \in Targets : LogAt(k + 1, "quiet")
    /\ result = "COMPILE_ERROR"

(***************************************************************************)
(* Locals in their own initializer.                                        *)
(***************************************************************************)
OwnInitializer == "Cannot read local variable in its own initializer."

\* the references that resolved to a local: the log entries of resolveLocal
\* with an index other than -1
Resolved == { k \in 1..Len(Log) : Log[k].ev = "resolve" /\ Log[k].n # -1 }

\* at entry k the local of index i is declared and its declaration is not
\* finished: it was added and markInitialized has not run on it since
Pending(i, k) ==
    \E j \in 1..(k - 1) :
       /\ Log[j].ev = "add" /\ Log[j].n = i
       /\ \A m \in (j + 1)..(k - 1) : ~(Log[m].ev = "init" /\ Log[m].n = i)

\* C12 as stated: every reference to a local whose declaration is not
\* finished is reported
C12_Reported ==
    Compiled_file =>
       \A k \in Resolved :
          Pending(Log[k].n, k) => LogAt(k + 1, "error") /\ Says(k + 1, OwnInitializer)

\* C12: a reference that resolves to a local whose declaration is not
\* finished (depth -1) makes compile fail, and 'Cannot read local variable
\* in its own initializer.' is reported unless panic mode suppresses it; a
\* reference that resolves to a local whose declaration has been finished
\* by markInitialized raises no such error
C12_OwnInitializer ==
    Compiled_file =>
       \A k \in Resolved :
          /\ Pending(Log[k].n, k) <=> Says(k + 1, OwnInitializer)
          /\ Pending(Log[k].n, k) =>
                /\ LogAt(k + 1, "quiet") <=> Panicking(k + 1)
                /\ result = "COMPILE_ERROR"

C12_Witness ==
    /\ Compiled_file
    /\ \E k \in Resolved : Pending(Log[k].n, k) /\ LogAt(k + 1, "error")
    /\ \E k \in Resolved : ~Pending(Log[k].n, k)
    /\ result = "COMPILE_ERROR"

(***************************************************************************)
(* Declarations.                                                           *)
(***************************************************************************)
Redeclared == "Variable with this name already declared in this scope."

Count(ev, lo, hi) == Cardinality({ i \in lo..hi : Log[i].ev = ev })

\* the log entry of the beginScope that opened the scope entry k lies in,
\* the last one not closed before k, 0 at top level
ScopeStart(k) ==
    LET open == { j \in 1..(k - 1) :
                    /\ Log[j].ev = "begin"
                    /\ Count("begin", j + 1, k - 1) = Count("end", j + 1, k - 1) }
    IN IF open = {} THEN 0 ELSE CHOOSE j \in open : \A i \in open : i <= j

\* a local of that name was added in the scope of entry k before it
DeclaredHere(name, k) ==
    \E a \in 1..(k - 1) :
       /\ Log[a].ev = "add" /\ Log[a].name = name
       /\ ScopeStart(a) = ScopeStart(k)

\* the locals of that name added before entry k and not removed by an
\* endScope since
Live(name, k) ==
    { a \in 1..(k - 1) :
        /\ Log[a].ev = "add" /\ Log[a].name = name
        /\ \A e \in (a + 1)..(k - 1) : ~(Log[e].ev = "end" /\ Log[e].n <= Log[a].n) }

Innermost(name, k) ==
    IF Live(name, k) = {} THEN -1
    ELSE Log[CHOOSE a \in Live(name, k) : \A b \in Live(name, k) : b <= a].n

Declares == { k \in 1..Len(Log) : Log[k].ev = "declare" }

Reported == { k \in 1..Len(Log) : Log[k].ev = "error" }

\* C14: compile fails exactly when an error was reported, whether or not
\* synchronize ran afterwards, and vm_dofile then returns COMPILE_ERROR with
\* nothing pushed, no frame and no instruction executed
C14_CompileError ==
    Compiled_file =>
       /\ parser.hadError <=> Reported # {}
       /\ result = "COMPILE_ERROR" <=> Reported # {}
       /\ Len(parser.errors) = Cardinality(Reported)
       /\ result = "COMPILE_ERROR" =>
             /\ phase = "done"
             /\ stack = <<>> /\ top = 0
             /\ frames = <<>> /\ frameCount = 0
             /\ funs["script"] = EmptyFun
             /\ last = NoLast /\ out = <<>> /\ err = <<>>

\* an error was reported, synchronize ran and cleared panic mode, and
\* statements after it were compiled
C14_Witness ==
    /\ Compiled_file
    /\ result = "COMPILE_ERROR"
    /\ \E k \in 1..Len(Log) : Log[k].ev = "synchronize"
    /\ ~parser.panicMode
    /\ parser.chunk.count > 2

(***************************************************************************)
(* Panic mode.                                                             *)
(***************************************************************************)
\* the calls of errorAt, reported or suppressed
Errors == { k \in 1..Len(Log) : Log[k].ev \in {"error", "quiet"} }

\* C15: between two consecutive calls of synchronize, and before the first,
\* at most one error message is reported and every later error is
\* suppressed; synchronize clears panic mode, so the first error after it is
\* reported; and it returns only with ';' as the previous token or with a
\* current token among class, fun, var, for, if, while, print, return, EOF
C15_PanicMode ==
    Compiled_file =>
       /\ \A j \in Reported : \A k \in Reported :
             j < k => \E i \in (j + 1)..(k - 1) : Log[i].ev = "synchronize"
       /\ \A k \in Errors : LogAt(k, "quiet") <=> Panicking(k)
       /\ \A i \in 1..Len(Log) : \A k \in Errors :
             (/\ Log[i].ev = "synchronize" /\ i < k
              /\ \A m \in (i + 1)..(k - 1) : m \notin Errors)
                => LogAt(k, "error")
       /\ \A k \in 1..Len(Log) :
             Log[k].ev = "resume" =>
                \/ Log[k].n = 1
                \/ Log[k].name \in SyncTokens \cup {"TOKEN_EOF"}

\* an error, a suppressed one, synchronize stopping after a ';' and a second
\* reported error
C15_Witness ==
    /\ Compiled_file
    /\ Cardinality(Reported) >= 2
    /\ \E k \in Errors : LogAt(k, "quiet")
    /\ \E k \in 1..Len(Log) : Log[k].ev = "resume" /\ Log[k].n = 1
    /\ \E k \in 1..Len(Log) : Log[k].ev = "resume" /\ Log[k].name \in SyncTokens

(***************************************************************************)
(* Clones.  A fourth specification has a host that makes one clone of the  *)
(* VM with vm_clone and runs one assembled function on each of the two     *)
(* VMs, one run after the other in either order (vm_execute never yields). *)
(* The registers stack, top, frames, frameCount and ip are those of the VM *)
(* the host drives, other holds the VM it does not drive.  The function    *)
(* "script" is run on the first VM and stores 1, "second" is run on the    *)
(* clone and stores 2.                                                     *)
(***************************************************************************)
\* functions that define, overwrite and read the global a, with and without
\* a call before
ClonePrograms(i) ==
    { Cat(<<Kn(i), I1("DEF", Ks("a")), I("NIL"), I("RET")>>),
      Cat(<<Kn(i), I1("GST", Ks("a")), I("RET")>>),
      Cat(<<I1("GLD", Ks("a")), I("RET")>>),
      Cat(<<Kn(0), Kf("f0"), I1("CALL", 0), I("POP"), I1("GLD", Ks("a")), I("RET")>>),
      Cat(<<Kf("f0"), I1("CALL", 0), I1("DEF", Ks("a")), Kn(i), I1("GST", Ks("a")),
            I("RET")>>) }

CloneScenario(first, second) ==
    [kind |-> "asm", src |-> <<>>, main |-> Fun("script", 0, first, POOL),
     next |-> Fun("second", 0, second, POOL)]

InitClone ==
    /\ \E first \in ClonePrograms(1), second \in ClonePrograms(2) :
          scen = CloneScenario(first, second)
    /\ parser = initCompiler(<<>>)
    /\ other = NoClone
    /\ phase = "host"
    /\ hostCalls = 0
    /\ funs = [name \in (DOMAIN Helpers) \cup {"script", "second"} |->
                 CASE name = "script" -> scen.main
                   [] name = "second" -> scen.next
                   [] OTHER -> Helpers[name]]
    /\ maps = <<>>
    /\ globals = EmptyTab
    /\ stack = <<>>
    /\ top = 0
    /\ frames = <<>>
    /\ frameCount = 0
    /\ ip = 0
    /\ result = "NONE"
    /\ undefined = FALSE
    /\ out = <<>>
    /\ err = <<>>
    /\ marks = <<>>
    /\ last = NoLast
    /\ home = <<>>
    /\ blk = <<>>
    /\ stored = EmptyTab
    /\ heap = NoHeap

\* the VM vm_clone returns when the tables were copied instead of shared
vm_clone_copy(from) ==
    [made |-> TRUE, name |-> "clone", stack |-> <<>>, top |-> 0, frames |-> <<>>,
     frameCount |-> 0, ip |-> 0, phase |-> "host", result |-> "NONE",
     shared |-> FALSE, table |-> from]

\* the VM vm_clone returns: memset, the three pointers of from, resetStack
vm_clone_new(from) ==
    [made |-> TRUE, name |-> "clone", stack |-> <<>>, top |-> 0, frames |-> <<>>,
     frameCount |-> 0, ip |-> 0, phase |-> "host", result |-> "NONE",
     shared |-> TRUE, table |-> EmptyTab]

\* the host clones the VM it holds, before or after running it
vm_clone ==
    /\ ~other.made
    /\ phase \in {"host", "done"}
    /\ other' = vm_clone_new(globals)
    /\ UNCHANGED <<heap, scen, parser, phase, hostCalls, funs, maps, globals, stack, top, frames,
                   frameCount, ip, result, undefined, out, err, marks, last, home, blk,
                   stored>>

\* the function the host runs on a VM
ProgramOf(name) == IF name = "clone" THEN "second" ELSE "script"
Driven == IF other.name = "clone" THEN "from" ELSE "clone"

\* the host turns to the VM it has not run yet: PUSH(function),
\* vm_call(vm, function, 0), vm_execute, as vm_dofile does on its VM
vm_run_other ==
    /\ other.made
    /\ other.phase = "host"
    /\ phase \in {"host", "done"}
    /\ other' = [made |-> TRUE, name |-> Driven, stack |-> stack, top |-> top,
                 frames |-> frames, frameCount |-> frameCount, ip |-> ip, phase |-> phase,
                 result |-> result, shared |-> other.shared, table |-> globals]
    /\ globals' = IF other.shared THEN globals ELSE other.table
    /\ stack' = PUSH(other.stack, VAL_FUN(ProgramOf(other.name)))
    /\ top' = other.top + 1
    /\ frames' = Append(other.frames,
                        [function |-> ProgramOf(other.name), ip |-> 0,
                         slots |-> other.top + 1 - 0 - 1])
    /\ frameCount' = other.frameCount + 1
    /\ ip' = 0
    /\ phase' = "run"
    /\ result' = other.result
    /\ UNCHANGED <<heap, scen, parser, hostCalls, funs, maps, undefined, out, err, marks, last,
                   home, blk, stored>>

NextClone ==
    \/ vm_clone
    \/ vm_run
    \/ vm_run_other
    \/ OP_CONST
    \/ OP_NIL
    \/ OP_POP
    \/ OP_DEF
    \/ OP_GLD
    \/ OP_GST
    \/ OP_CALL
    \/ OP_RET

SpecClone == InitClone /\ [][NextClone]_vars

\* what a step leaves of the VM the host does not drive
Parked(vm) == <<vm.made, vm.name, vm.stack, vm.top, vm.frames, vm.frameCount>>

\* C16: the VM vm_clone returns has an empty stack and no frame and leaves
\* the VM it was cloned from as it was; every instruction executed on one VM
\* leaves the stack and the frames of the other VM unchanged; and a GLD on
\* either VM pushes the value stored last under the name by a DEF or GST of
\* either VM
C16_Step ==
    /\ (~other.made /\ other'.made) =>
          /\ other'.stack = <<>> /\ other'.top = 0
          /\ other'.frames = <<>> /\ other'.frameCount = 0
          /\ UNCHANGED <<stack, top, frames, frameCount, globals, funs, maps>>
    /\ last' # last =>
          /\ Parked(other') = Parked(other)
          /\ (last'.op = "GLD" /\ ~last'.error) =>
                /\ tab_has(stored', LastName')
                /\ stack' = PUSH(stack, tab_get(stored', LastName'))
          /\ (last'.op = "GLD" /\ last'.error) => ~tab_has(stored', LastName')
          /\ last'.op \in {"DEF", "GST"} /\ ~last'.error =>
                tab_get(globals', LastName') = tab_get(stored', LastName')

C16_Clone == [][C16_Step]_vars

\* the first VM, run after the clone, loaded the 2 the clone had stored
C16_Witness ==
    /\ other.made /\ other.name = "clone" /\ other.phase = "done"
    /\ last.op = "GLD" /\ ~last.error /\ last.fn = "script"
    /\ top >= 1 /\ stack[top] = VAL_NUM(2)

(***************************************************************************)
(* Frames.                                                                 *)
(***************************************************************************)
\* the last instruction was a CALL whose callee is a function object
CalledFunction == last.op = "CALL" /\ IS_FUN(Was(last.operand))
Callee == funs[Was(last.operand).ref]

\* C17 as stated: every CALL of a function object with FRAMES_MAX frames in
\* use ends with 'Stack overflow.'
C17_Overflow ==
    (CalledFunction /\ last.frameCount = FRAMES_MAX) =>
        /\ last.error
        /\ LastError.message = <<"Stack overflow.">>

\* C17: the frame count stays within 0..FRAMES_MAX; a CALL of a function
\* object with the right number of arguments and FRAMES_MAX frames in use
\* pushes no frame and ends with 'Stack overflow.'; one with a wrong number
\* of arguments ends with the arity message at any depth; every other CALL
\* of a function object adds exactly one frame, whose slots start at
\* top - argCount - 1
C17_Frames ==
    /\ frameCount \in 0..FRAMES_MAX
    /\ frameCount = Len(frames)
    /\ CalledFunction =>
          IF last.operand # Callee.arity
          THEN /\ last.error
               /\ LastError.message =
                     <<"Expected %d arguments but got %d.", Callee.arity, last.operand>>
               /\ frameCount = 0
          ELSE IF last.frameCount = FRAMES_MAX
          THEN /\ last.error
               /\ LastError.message = <<"Stack overflow.">>
               /\ result = "RUNTIME_ERROR"
               /\ frameCount = 0
          ELSE /\ ~last.error
               /\ frameCount = last.frameCount + 1
               /\ frames[frameCount].slots = last.top - last.operand - 1
               /\ frames[frameCount].function = Callee.name
               /\ stack = last.stack

\* a recursion that filled the frames and was stopped by 'Stack overflow.'
C17_Witness ==
    /\ CalledFunction
    /\ last.frameCount = FRAMES_MAX
    /\ last.operand = Callee.arity
    /\ last.error
    /\ LastError.message = <<"Stack overflow.">>

(***************************************************************************)
(* Stack bounds.                                                           *)
(***************************************************************************)
\* the instruction at ip pushes above the values it found
Pushing ==
    /\ phase = "run" /\ frameCount >= 1 /\ InCode(ip)
    /\ Opcode # "BAD" /\ Grows(Opcode)
    /\ ip + OperandBytes(Opcode) < Len(CODE)

\* C18: while and after a successfully compiled program runs, the stack
\* height is never negative and never above the capacity of the stack, and
\* no value is pushed on a full stack
C18_StackBounds ==
    (Compiled_file /\ result # "COMPILE_ERROR") =>
        /\ top >= 0
        /\ top <= STACK_MAX
        /\ Pushing => top < STACK_MAX

(***************************************************************************)
(* Many locals.  A fifth specification resumes compile inside a block in   *)
(* which LocalCount locals named "1", "2", ... are declared already, up to *)
(* the limit of UINT8_COUNT, and compiles at most MaxFragments fragments   *)
(* from there.  Filled is the parser exactly as compile leaves it after    *)
(*   { var 1; var 2; ... var k;                                            *)
(* which FilledAgrees checks against compile itself for the short prefixes.*)
(***************************************************************************)
LocalCounts == {0, 1, 2, UINT8_COUNT - 1, UINT8_COUNT}

LocalName(i) == TokId(ToString(i))

\* the tokens of { var 1; var 2; ... var k;
PrefixTokens(k) ==
    [j \in 1..(3 * k + 1) |->
        IF j = 1 THEN Tok("TOKEN_LEFT_BRACE")
        ELSE CASE (j - 2) % 3 = 0 -> Tok("TOKEN_VAR")
               [] (j - 2) % 3 = 1 -> LocalName(((j - 2) \div 3) + 1)
               [] OTHER -> SEMI]

\* the log of compiling them
PrefixLog(k) ==
    [j \in 1..(3 * k + 1) |->
        IF j = 1 THEN Ev("begin", "", 0)
        ELSE CASE (j - 2) % 3 = 0 -> Ev("declare", ToString(((j - 2) \div 3) + 1), 1)
               [] (j - 2) % 3 = 1 -> Ev("add", ToString(((j - 2) \div 3) + 1), (j - 2) \div 3)
               [] OTHER -> Ev("init", ToString(((j - 2) \div 3) + 1), (j - 2) \div 3)]

\* the chunk after k declarations without initializer: k times OP_NIL
PrefixChunk(k) ==
    [count |-> k,
     capacity |-> ((k + CHUNK_CODEPAGE - 1) \div CHUNK_CODEPAGE) * CHUNK_CODEPAGE,
     code |-> <<>> \o [i \in 1..k |-> OP("NIL")],
     lines |-> <<>> \o [i \in 1..k |-> 65536 + 3 * i + 2],
     constants |-> <<>>]

\* the parser inside the block, before the first token of rest is scanned
Filled_before(k, rest) ==
    [toks |-> PrefixTokens(k) \o rest, pos |-> 3 * k + 2,
     current |-> IF k = 0 THEN Tok("TOKEN_LEFT_BRACE") ELSE SEMI, previous |-> TokEOF,
     hadError |-> FALSE, panicMode |-> FALSE, errors |-> <<>>,
     chunk |-> PrefixChunk(k),
     locals |-> <<>> \o [i \in 1..k |-> [name |-> LocalName(i), depth |-> 1]],
     scopeDepth |-> 1,
     marks |-> <<>> \o [i \in 1..k |-> Mark("decl", i, i - 1)],
     undefined |-> FALSE, log |-> <<>> \o PrefixLog(k)]

Filled(k, rest) == advance(Filled_before(k, rest))

\* compile from there on: the rest of block(), endScope, the rest of
\* declaration, the loop of compile, endCompiler
compileFilled(k, rest) ==
    endCompiler(compileLoop(declaration_sync(
        statement_marked(endScope(block(Filled(k, rest))), 0))))

\* the last local declared (a global when there is none)
LocalFragments(k) ==
    { <<Tok("TOKEN_VAR"), TokId("x"), SEMI>>,
      <<Tok("TOKEN_VAR"), TokId("y"), SEMI>>,
      <<LocalName(k), Tok("TOKEN_EQUAL"), TokId("x"), SEMI>>,
      <<Tok("TOKEN_LEFT_BRACE")>>,
      <<Tok("TOKEN_RIGHT_BRACE")>> }

InitLocals ==
    /\ \E k \in LocalCounts : \E n \in 0..MaxFragments :
          \E items \in [1..n -> LocalFragments(k)] :
             scen = [kind |-> "locals", src |-> Cat(items), main |-> EmptyFun, k |-> k]
    /\ parser = initCompiler(<<>>)
    /\ other = NoClone
    /\ phase = "host"
    /\ hostCalls = 0
    /\ funs = [name \in (DOMAIN Helpers) \cup {"script"} |->
                 IF name = "script" THEN scen.main ELSE Helpers[name]]
    /\ maps = <<>>
    /\ globals = EmptyTab
    /\ stack = <<>>
    /\ top = 0
    /\ frames = <<>>
    /\ frameCount = 0
    /\ ip = 0
    /\ result = "NONE"
    /\ undefined = FALSE
    /\ out = <<>>
    /\ err = <<>>
    /\ marks = <<>>
    /\ last = NoLast
    /\ home = <<>>
    /\ blk = <<>>
    /\ stored = EmptyTab
    /\ heap = NoHeap

\* compile, seen from inside the block
compile_block ==
    /\ phase = "host"
    /\ scen.kind = "locals"
    /\ parser' = compileFilled(scen.k, scen.src)
    /\ result' = IF parser'.hadError THEN "COMPILE_ERROR" ELSE "OK"
    /\ phase' = "done"
    /\ UNCHANGED <<heap, scen, other, hostCalls, funs, maps, globals, stack, top, frames, frameCount,
                   ip, undefined, out, err, marks, last, home, blk, stored>>

NextLocals == compile_block

SpecLocals == InitLocals /\ [][NextLocals]_vars

Compiled_block == scen.kind = "locals" /\ phase = "done"

\* for the short prefixes, compile of the whole source leaves the same parser
FilledAgrees ==
    (Compiled_block /\ scen.k <= 2) => parser = compile(PrefixTokens(scen.k) \o scen.src)

TooMany == "Too many local variables in function."

\* the log entries made after the prefix
Later == (3 * scen.k + 2)..Len(Log)

\* localCount when log entry k was made: what the last beginScope, addLocal
\* or endScope before it left, the scen.k locals of the prefix if there is none
CountAt(k) ==
    LET seen == { j \in Later : j < k /\ Log[j].ev \in {"begin", "add", "end"} }
        j == CHOOSE i \in seen : \A m \in seen : m <= i
    IN IF seen = {} THEN scen.k
       ELSE IF Log[j].ev = "add" THEN Log[j].n + 1 ELSE Log[j].n

\* scopeDepth when log entry k was made; the declarations of the prefix are
\* all made in the block that entry 1 opened
ScopeAt(k) ==
    IF k = 1 THEN 0
    ELSE IF k < 3 * scen.k + 2 THEN 1
    ELSE 1 + Count("begin", 3 * scen.k + 2, k - 1) - Count("end", 3 * scen.k + 2, k - 1)

\* the depth of local i when log entry k was made: -1 from addLocal until
\* markInitialized writes the scope depth of that moment
DepthAt(i, k) ==
    LET touched == { j \in {3 * i + 4} \cup Later :
                       j < k /\ Log[j].ev \in {"add", "init"} /\ Log[j].n = i }
        j == CHOOSE t \in touched : \A m \in touched : m <= t
    IN IF Log[j].ev = "add" THEN -1 ELSE ScopeAt(j)

\* the locals deeper than the scope an endScope at entry k returns to
Deeper(k) == { i \in 0..(CountAt(k) - 1) : DepthAt(i, k) > ScopeAt(k) - 1 }

\* the LD and ST the compiler marked
LocalMarks == { m \in 1..Len(parser.marks) : parser.marks[m].kind \in {"ld", "st"} }

\* C19 as stated: a declaration made with 256 locals live is always reported
\* as 'Too many local variables in function.'
C19_Reported ==
    Compiled_block =>
       \A k \in Later :
          (Log[k].ev = "declare" /\ Log[k].n > 0 /\ CountAt(k) = UINT8_COUNT) =>
             LET next == IF Says(k + 1, Redeclared) THEN k + 2 ELSE k + 1
             IN LogAt(next, "error") /\ Says(next, TooMany)

\* C19: localCount stays within 0..256; a declaration made with 256 locals
\* live adds none, makes compile fail and draws 'Too many local variables in
\* function.', which is reported unless panic mode suppresses it; every
\* other declaration in a scope adds one; every LD and ST is emitted as two
\* bytes, the opcode and a slot of at most 255; endScope removes exactly the
\* locals whose depth exceeds the scope depth it returns to
C19_Locals ==
    Compiled_block =>
       /\ FilledAgrees
       /\ Len(parser.locals) \in 0..UINT8_COUNT
       /\ \A k \in Later :
             /\ Log[k].ev = "add" => Log[k].n = CountAt(k) /\ Log[k].n < UINT8_COUNT
             /\ (Log[k].ev = "declare" /\ Log[k].n > 0) =>
                   LET next == IF Says(k + 1, Redeclared) THEN k + 2 ELSE k + 1
                   IN IF CountAt(k) = UINT8_COUNT
                      THEN /\ Says(next, TooMany)
                           /\ LogAt(next, "quiet") <=> Panicking(next)
                           /\ result = "COMPILE_ERROR"
                      ELSE LogAt(next, "add") /\ Log[next].name = Log[k].name
             /\ Log[k].ev = "end" =>
                   /\ Log[k].n = CountAt(k) - Cardinality(Deeper(k))
                   /\ \A i \in Deeper(k) : i >= Log[k].n
       /\ \A m \in LocalMarks :
             /\ parser.marks[m].idx \in 0..UINT8_MAX
             /\ parser.chunk.code[parser.marks[m].at + 1]
                   = (IF parser.marks[m].kind = "ld" THEN OP("LD") ELSE OP("ST"))
             /\ parser.chunk.code[parser.marks[m].at + 2] = parser.marks[m].idx
       /\ InstructionsAt(parser.chunk.code, scen.k, {"LD", "ST"})
             = { parser.marks[m].at : m \in LocalMarks }

\* the 257th declaration was refused and the 256th local was stored to
C19_Witness ==
    /\ Compiled_block
    /\ Len(parser.locals) = 0
    /\ \E k \in Later : LogAt(k, "error") /\ Says(k, TooMany)
    /\ \E m \in LocalMarks : parser.marks[m].kind = "st" /\ parser.marks[m].idx = UINT8_MAX

(***************************************************************************)
(* Constants beyond the short form.  The scripts are a numbered prefix     *)
(* followed by statements that take the next constants of the pool.        *)
(***************************************************************************)
MaxNumberedFragments == 2

NumberedCounts == {0, 1, UINT8_MAX, UINT8_COUNT}

NumberedFragments ==
    { <<TokNum(7), SEMI>>,
      <<Tok("TOKEN_VAR"), TokId("a"), SEMI>>,
      <<Tok("TOKEN_VAR"), TokId("a"), Tok("TOKEN_EQUAL"), TokNum(8), SEMI>>,
      <<TokId("a"), SEMI>>,
      <<TokId("a"), Tok("TOKEN_EQUAL"), TokNum(9), SEMI>> }

InitNumbered ==
    /\ \E k \in NumberedCounts : \E n \in 0..MaxNumberedFragments :
          \E items \in [1..n -> NumberedFragments] :
             scen = [kind |-> "numbered", src |-> Cat(items), main |-> EmptyFun, k |-> k]
    /\ parser = initCompiler(<<>>)
    /\ other = NoClone
    /\ phase = "host"
    /\ hostCalls = 0
    /\ funs = [name \in (DOMAIN Helpers) \cup {"script"} |->
                 IF name = "script" THEN scen.main ELSE Helpers[name]]
    /\ maps = <<>>
    /\ globals = EmptyTab
    /\ stack = <<>>
    /\ top = 0
    /\ frames = <<>>
    /\ frameCount = 0
    /\ ip = 0
    /\ result = "NONE"
    /\ undefined = FALSE
    /\ out = <<>>
    /\ err = <<>>
    /\ marks = <<>>
    /\ last = NoLast
    /\ home = <<>>
    /\ blk = <<>>
    /\ stored = EmptyTab
    /\ heap = NoHeap

NextNumbered ==
    \/ vm_dofile
    \/ OP_CONST
    \/ OP_POP
    \/ OP_NIL
    \/ OP_DEF
    \/ OP_GLD
    \/ OP_GST
    \/ OP_RET
    \/ OP_BAD

SpecNumbered == InitNumbered /\ [][NextNumbered]_vars

Compiled_numbered == scen.kind = "numbered" /\ phase # "host"

\* for the short prefixes, compile of the whole source leaves the same parser
NumberedAgrees ==
    (Compiled_numbered /\ scen.k <= 1) => parser = compile(NumberedTokens(scen.k) \o scen.src)

\* the instruction the compiler emitted at offset at of the script, and the
\* constant index it emitted after it: one byte, or two with the high byte first
EmittedName(at) == OPCODES[funs["script"].code[at + 1] + 1]
EmittedIndex(at) ==
    IF EmittedOperands(EmittedName(at)) = 2
    THEN funs["script"].code[at + 2] * 256 + funs["script"].code[at + 3]
    ELSE funs["script"].code[at + 2]
EmittedConstant(at) == funs["script"].constants[EmittedIndex(at) + 1]

\* the offset of the statement of the prefix that offset at lies in, the
\* end of the prefix if it lies behind
StatementAt(at) == IF at < 3 * scen.k THEN 3 * (at \div 3) ELSE 3 * scen.k

\* the last instruction executed is one of ops, as the compiler emitted it
LastEmitted(ops) ==
    /\ Compiled_numbered
    /\ last # NoLast
    /\ last.at \in InstructionsIn(funs["script"].code, StatementAt(last.at), last.at + 1, ops)

\* the last instruction left ip behind the operand bytes the compiler emitted
PastOperands == ip = last.at + 1 + EmittedOperands(EmittedName(last.at))

\* the last instruction did what ops' short form does with the constant the
\* compiler referenced
RoundTrip(ops) ==
    LastEmitted(ops) =>
       LET c == EmittedConstant(last.at)
       IN CASE EmittedName(last.at) \in {"CONST", "CONSTL"} ->
                 ~last.error /\ stack = Append(last.stack, c) /\ PastOperands
            [] EmittedName(last.at) \in {"DEF", "DEFL"} ->
                 /\ ~last.error /\ stack = POPN(last.stack, 1) /\ PastOperands
                 /\ tab_has(globals, c.chars)
                 /\ tab_get(globals, c.chars) = last.stack[last.top]
            [] EmittedName(last.at) \in {"GLD", "GLDL"} ->
                 IF tab_has(last.globals, c.chars)
                 THEN /\ ~last.error /\ PastOperands
                      /\ stack = Append(last.stack, tab_get(last.globals, c.chars))
                 ELSE last.error /\ result = "RUNTIME_ERROR"
            [] OTHER ->
                 IF tab_has(last.globals, c.chars)
                 THEN /\ ~last.error /\ stack = last.stack /\ PastOperands
                      /\ tab_get(globals, c.chars) = last.stack[last.top]
                 ELSE last.error /\ result = "RUNTIME_ERROR"

\* the short forms do
ShortRoundTrip == NumberedAgrees /\ RoundTrip({"CONST", "DEF", "GLD", "GST"})

\* C20: executing an emitted CONST or CONST_LONG pushes exactly the pool
\* entry the compiler referenced and leaves ip behind the operand bytes the
\* compiler emitted, and DEF, GLD, GST and their long forms use the name the
\* compiler referenced in the same way
C20_RoundTrip ==
    RoundTrip({"CONST", "DEF", "GLD", "GST", "CONSTL", "DEFL", "GLDL", "GSTL"})

(***************************************************************************)
(* Constant operands.  makeConstant followed by emitBytesAndConstLong, as  *)
(* emitConstant, defineVariable and namedVariable call them, on a chunk    *)
(* whose pool already holds n constants.                                   *)
(***************************************************************************)
\* vm_create, and a compiler not yet started
Created ==
    /\ parser = initCompiler(<<>>)
    /\ other = NoClone
    /\ phase = "host"
    /\ hostCalls = 0
    /\ funs = [name \in (DOMAIN Helpers) \cup {"script"} |->
                 IF name = "script" THEN scen.main ELSE Helpers[name]]
    /\ maps = <<>>
    /\ globals = EmptyTab
    /\ stack = <<>>
    /\ top = 0
    /\ frames = <<>>
    /\ frameCount = 0
    /\ ip = 0
    /\ result = "NONE"
    /\ undefined = FALSE
    /\ out = <<>>
    /\ err = <<>>
    /\ marks = <<>>
    /\ last = NoLast
    /\ home = <<>>
    /\ blk = <<>>
    /\ stored = EmptyTab
    /\ heap = NoHeap

PoolSizes ==
    { 0, 1, 2, 127, 128, UINT8_MAX - 1, UINT8_MAX, UINT8_COUNT, UINT8_COUNT + 1,
      2 * UINT8_COUNT - 1, 2 * UINT8_COUNT, 2 * UINT8_COUNT + 1, 4095, 4096, 32767, 32768,
      UINT16_MAX - 1, UINT16_MAX, UINT16_MAX + 1 }

ShortForms == {"CONST", "DEF", "GLD", "GST"}

InitEmit ==
    /\ \E n \in PoolSizes : \E op \in ShortForms :
          scen = [kind |-> "emit", src |-> <<>>, main |-> EmptyFun, k |-> n, op |-> op]
    /\ Created

\* a compiler whose chunk holds n constants
Pooled(n) == [initCompiler(<<>>) EXCEPT !.chunk.constants = <<>> \o [i \in 1..n |-> VAL_NIL]]

\* the operand of one more constant
emitOperand(c, op) == emitBytesAndConstLong(c.p, OP(op), c.index)

emit_operand ==
    /\ phase = "host"
    /\ scen.kind = "emit"
    /\ parser' = emitOperand(makeConstant(Pooled(scen.k), VAL_NUM(1)), scen.op)
    /\ result' = IF parser'.hadError THEN "COMPILE_ERROR" ELSE "OK"
    /\ phase' = "done"
    /\ UNCHANGED <<heap, scen, other, hostCalls, funs, maps, globals, stack, top, frames, frameCount,
                   ip, undefined, out, err, marks, last, home, blk, stored>>

NextEmit == emit_operand

SpecEmit == InitEmit /\ [][NextEmit]_vars

Emitted == scen.kind = "emit" /\ phase = "done"

LongForm(op) ==
    CASE op = "CONST" -> "CONSTL"
      [] op = "DEF" -> "DEFL"
      [] op = "GLD" -> "GLDL"
      [] op = "GST" -> "GSTL"

TooManyConstants == "Too many constants in one chunk."

MaxEmits == 2 * CHUNK_CODEPAGE + 2

\* the line and column of the token an emit is made for
Positions == { <<1, 1>>, <<32767, 65535>>, <<65536, 65537>>, <<70000, 3>> }

\* the byte the n-th emit writes
EmitByte(n) == (7 * n) % 256

InitChunk ==
    /\ \/ \E n \in 0..MaxItems : \E items \in [1..n -> Items] : scen = FileScenario(items)
       \/ \E at \in Positions :
             scen = [kind |-> "emits", src |-> <<>>, main |-> EmptyFun,
                     ln |-> at[1], col |-> at[2]]
    /\ Created

\* one call of chunk_emit; hostCalls counts them
emit_step ==
    /\ phase = "host"
    /\ scen.kind = "emits"
    /\ hostCalls < MaxEmits
    /\ parser' = [parser EXCEPT !.chunk = chunk_emit(@, EmitByte(hostCalls), scen.ln, scen.col)]
    /\ hostCalls' = hostCalls + 1
    /\ UNCHANGED <<heap, scen, other, phase, funs, maps, globals, stack, top, frames, frameCount, ip,
                   result, undefined, out, err, marks, last, home, blk, stored>>

NextChunk == emit_step \/ vm_dofile

SpecChunk == InitChunk /\ [][NextChunk]_vars

\* code and lines hold count entries each, within the capacity allocated
ChunkKept(chunk) ==
    /\ chunk.count = Len(chunk.code)
    /\ Len(chunk.lines) = Len(chunk.code)
    /\ chunk.count <= chunk.capacity
    /\ \A i \in 1..Len(chunk.code) :
          chunk.code[i] \in 0..UINT8_MAX /\ chunk.lines[i] >= 0

\* every emit so far added its byte and its position at the end
EmitsKept ==
    scen.kind = "emits" =>
       /\ parser.chunk.count = hostCalls
       /\ \A i \in 1..hostCalls :
             /\ parser.chunk.code[i] = EmitByte(i - 1)
             /\ parser.chunk.lines[i] = (scen.ln % 65536) * 65536 + (scen.col % 65536)

\* compile returned success
Compiled_ok == Compiled_file /\ ~parser.hadError

AllOpcodes == { OPCODES[i] : i \in 1..Len(OPCODES) }

\* the instructions of the compiled chunk, as the compiler emitted them
Instructions == InstructionsAt(parser.chunk.code, 0, AllOpcodes)

Executes(op) == Running(op) /\ last' # last /\ last'.op = op

\* the frame below the running one, and the code it runs
Caller == frames[frameCount - 1]
CallerCode == funs[Caller.function].code

\* C23: a CALL that pushes a frame saves the caller's ip after the CALL and
\* bases the new frame at the callee, argc + 1 below the top; a RET in a
\* frame that is not the last removes that frame, cuts the stack down to
\* the frame's base and pushes the returned value there, so that the height
\* is the one before the CALL less argc, and goes on in the caller after
\* its CALL, with the caller's function and base
C23_Return ==
    [][ /\ (Executes("CALL") /\ frameCount' = frameCount + 1) =>
              /\ frames'[frameCount'].slots = top - Operand - 1
              /\ frames'[frameCount] = [Frame EXCEPT !.ip = ip + 2]
              /\ stack' = stack
        /\ (Executes("RET") /\ frameCount > 1) =>
              /\ frameCount' = frameCount - 1
              /\ stack' = Append(SubSeq(stack, 1, Frame.slots), stack[top])
              /\ top' = Frame.slots + 1
              /\ frames' = SubSeq(frames, 1, frameCount - 1)
              /\ frames'[frameCount'] = Caller
              /\ ip' = Caller.ip
              /\ ip' >= 2 /\ CallerCode[ip' - 1] = OP("CALL")
              /\ top' = (Frame.slots + 1 + CallerCode[ip']) - CallerCode[ip']
              /\ phase' = "run" /\ result' = result
      ]_vars

\* a function called with an argument has returned to its caller
C23_Witness ==
    /\ last.op = "RET" /\ last.frameCount > 1
    /\ last.top - last.slots > 2
    /\ frameCount = last.frameCount - 1
    /\ top = last.slots + 1

(***************************************************************************)
(* Calls that are refused.                                                 *)
(***************************************************************************)
\* the CALL before this state ended the run with message, without a frame
Refused(message) ==
    /\ last.error
    /\ LastError.message = message
    /\ result = "RUNTIME_ERROR" /\ phase = "done"
    /\ frameCount = 0 /\ frames = <<>>

\* C24: a CALL of a function object with an argument count other than its
\* arity pushes no frame and ends with 'Expected <arity> arguments but got
\* <argc>.', also when FRAMES_MAX frames are in use; a CALL of a value that
\* is neither a function object nor a native function ends with 'Can only
\* call functions and classes.'
C24_CallErrors ==
    last.op = "CALL" =>
       /\ (CalledFunction /\ last.operand # Callee.arity) =>
             Refused(<<"Expected %d arguments but got %d.", Callee.arity, last.operand>>)
       /\ (~IS_FUN(Was(last.operand)) /\ ~IS_CFN(Was(last.operand))) =>
             Refused(<<"Can only call functions and classes.">>)

\* a call with a wrong argument count made with all the frames in use
C24_Witness ==
    /\ CalledFunction
    /\ last.frameCount = FRAMES_MAX
    /\ last.operand # Callee.arity
    /\ Refused(<<"Expected %d arguments but got %d.", Callee.arity, last.operand>>)

(***************************************************************************)
(* Maps.                                                                   *)
(***************************************************************************)
\* what a lookup of key in a store yields
Lookup(store, key) == IF key \in DOMAIN store THEN store[key] ELSE VAL_NIL

\* store with value under key and every other key as it was
Written(store, key, value) ==
    [k \in (DOMAIN store) \cup {key} |-> IF k = key THEN value ELSE store[k]]

\* the step replaces the n topmost values by value and goes on
Replaces(n, value) ==
    /\ stack' = Append(SubSeq(stack, 1, top - n), value)
    /\ top' = top - n + 1
    /\ phase' = "run" /\ ~last'.error

\* the step ends the run with message and leaves every map as it is
Fails(message) ==
    /\ last'.error
    /\ Len(err') = Len(err) + 1 /\ err'[Len(err')].message = message
    /\ result' = "RUNTIME_ERROR" /\ phase' = "done"
    /\ maps' = maps

\* the key of a GETI or SETI is a number or a string
Keyed(key) == IS_NUM(key) \/ IS_STR(key)

\* C25: SETI and SET write one key of one store of one map and leave every
\* other key, the other store and every other map as they were, and leave
\* the assigned value in place of their operands; GETI with a number reads
\* the number store, GETI with a string and GET read the string store under
\* the same names, and a key that is not there reads as nil; on a value that
\* is no map, or with a key that is neither number nor string, the four
\* instructions end with a runtime error and change no map
C25_MapStores ==
    [][ /\ (Executes("SETI") /\ IS_MAP(PEEK(2)) /\ IS_STR(PEEK(1))) =>
              /\ maps' = [maps EXCEPT ![PEEK(2).id].table = Written(@, PEEK(1).chars, PEEK(0))]
              /\ Replaces(3, PEEK(0))
        /\ (Executes("SETI") /\ IS_MAP(PEEK(2)) /\ IS_NUM(PEEK(1))) =>
              /\ maps' = [maps EXCEPT ![PEEK(2).id].hash = Written(@, PEEK(1), PEEK(0))]
              /\ Replaces(3, PEEK(0))
        /\ (Executes("SET") /\ IS_MAP(PEEK(1))) =>
              /\ maps' = [maps EXCEPT ![PEEK(1).id].table = Written(@, READ_STR, PEEK(0))]
              /\ Replaces(2, PEEK(0))
        /\ (Executes("GETI") /\ IS_MAP(PEEK(1)) /\ IS_STR(PEEK(0))) =>
              /\ Replaces(2, Lookup(maps[PEEK(1).id].table, PEEK(0).chars))
              /\ maps' = maps
        /\ (Executes("GETI") /\ IS_MAP(PEEK(1)) /\ IS_NUM(PEEK(0))) =>
              /\ Replaces(2, Lookup(maps[PEEK(1).id].hash, PEEK(0)))
              /\ maps' = maps
        /\ (Executes("GET") /\ IS_MAP(PEEK(0))) =>
              /\ Replaces(1, Lookup(maps[PEEK(0).id].table, READ_STR))
              /\ maps' = maps
        /\ (Executes("SETI") /\ ~IS_MAP(PEEK(2))) => Fails(MapMessage)
        /\ (Executes("GETI") /\ ~IS_MAP(PEEK(1))) => Fails(MapMessage)
        /\ (Executes("SET") /\ ~IS_MAP(PEEK(1))) => Fails(MapMessage)
        /\ (Executes("GET") /\ ~IS_MAP(PEEK(0))) => Fails(MapMessage)
        /\ (Executes("SETI") /\ IS_MAP(PEEK(2)) /\ ~Keyed(PEEK(1))) => Fails(KeyMessage)
        /\ (Executes("GETI") /\ IS_MAP(PEEK(1)) /\ ~Keyed(PEEK(0))) => Fails(KeyMessage)
        /\ (\E op \in HANDLED \ {"MAP", "SET", "SETI"} : Executes(op)) => maps' = maps
      ]_vars

\* a value written under a string key of a map that has number keys, read
\* back through GET by the same name
C25_Witness ==
    /\ last.op = "GET" /\ ~last.error
    /\ IS_MAP(Was(0))
    /\ maps[Was(0).id].hash # EmptyTab
    /\ LastName \in DOMAIN maps[Was(0).id].table
    /\ stack[top] = maps[Was(0).id].table[LastName]
    /\ stack[top] = VAL_NUM(0)

(***************************************************************************)
(* Map construction.                                                       *)
(***************************************************************************)
\* the map the last instruction made
Made == maps[Len(maps)]

\* the i-th of the n values the last instruction found pushed, first-pushed 0
Pushed(n, i) == last.stack[last.top - n + 1 + i]

\* MAP popped its count of values and pushed one new map with the keys
\* Number(0)..Number(count - 1) and no string key
MapMade ==
    last.op = "MAP" =>
       /\ ~last.error
       /\ top = last.top - last.operand + 1
       /\ stack = Append(SubSeq(last.stack, 1, last.top - last.operand), VAL_MAP(Len(maps)))
       /\ DOMAIN Made.hash = { VAL_NUM(i) : i \in 0..(last.operand - 1) }
       /\ Made.table = EmptyTab

\* C26: MAP pops its count of values and pushes a new map with exactly the
\* number keys 0..count-1 and no string key, in which key i holds the i-th
\* value in the order the values were pushed
C26_MapLiteral ==
    /\ MapMade
    /\ last.op = "MAP" =>
          \A i \in 0..(last.operand - 1) : Made.hash[VAL_NUM(i)] = Pushed(last.operand, i)

\* what the loop of MAP stores: key i holds the value i below the top
MapReversed ==
    last.op = "MAP" =>
       \A i \in 0..(last.operand - 1) :
          Made.hash[VAL_NUM(i)] = Pushed(last.operand, last.operand - 1 - i)

(***************************************************************************)
(* Termination of vm_execute.  The dispatch loop executes one instruction  *)
(* after the other until a handler returns, so a step of the running VM    *)
(* that is possible is taken.                                              *)
(***************************************************************************)
Execute == phase = "run" /\ Next

SpecRun == Init /\ [][Next]_vars /\ WF_vars(Execute)

\* vm_execute runs the chunk compile produced for the source file
Executing == Compiled_ok /\ phase = "run"

\* vm_execute has returned, by a return statement of its own
Returned == phase = "done" /\ ~undefined /\ result \in {"OK", "RUNTIME_ERROR"}

\* C27: while vm_execute runs a chunk the compiler produced, the instruction
\* pointer stays within the code of the running function, and the run
\* eventually returns OK or RUNTIME_ERROR
C27_Returns ==
    /\ [](Executing => InCode(ip))
    /\ Executing ~> Returned

\* every run comes to an end, the assembled ones with jumps and recursion too
RunEnds == (phase = "run") ~> (phase = "done")

\* within one frame the instruction pointer moves forward only
Forward ==
    [][ (phase = "run" /\ phase' = "run" /\ frameCount' = frameCount /\ frames' = frames)
           => ip' > ip ]_vars

(***************************************************************************)
(* Termination of compile.  The loops of compile are taken one iteration   *)
(* at a time: the top-level loop and the loop of block each call           *)
(* declaration until they stop, and a '{' opens a loop of block inside the *)
(* iteration that meets it.  blk holds, for every block that is open, the  *)
(* code offset at which it began.                                          *)
(***************************************************************************)
TOKEN_TYPES ==
    { "TOKEN_LEFT_PAREN", "TOKEN_RIGHT_PAREN", "TOKEN_LEFT_BRACE", "TOKEN_RIGHT_BRACE",
      "TOKEN_COMMA", "TOKEN_DOT", "TOKEN_MINUS", "TOKEN_PLUS", "TOKEN_SEMICOLON",
      "TOKEN_SLASH", "TOKEN_STAR", "TOKEN_BANG", "TOKEN_BANG_EQUAL", "TOKEN_EQUAL",
      "TOKEN_EQUAL_EQUAL", "TOKEN_GREATER", "TOKEN_GREATER_EQUAL", "TOKEN_LESS",
      "TOKEN_LESS_EQUAL", "TOKEN_IDENTIFIER", "TOKEN_STRING", "TOKEN_NUMBER", "TOKEN_AND",
      "TOKEN_CLASS", "TOKEN_ELSE", "TOKEN_FALSE", "TOKEN_FOR", "TOKEN_FUN", "TOKEN_IF",
      "TOKEN_NIL", "TOKEN_OR", "TOKEN_PRINT", "TOKEN_RETURN", "TOKEN_SUPER", "TOKEN_THIS",
      "TOKEN_TRUE", "TOKEN_VAR", "TOKEN_WHILE", "TOKEN_ERROR", "TOKEN_EOF" }

ParseFragments ==
    Fragments \cup { <<Tok("TOKEN_PRINT"), TokId("a"), SEMI>> }

InitParse ==
    /\ \E n \in 0..MaxFragments : \E items \in [1..n -> ParseFragments] :
          scen = [kind |-> "parse", src |-> Cat(items), main |-> EmptyFun]
    /\ Created

\* hostCalls counts the steps compile has made
ParseStep ==
    /\ hostCalls' = hostCalls + 1
    /\ UNCHANGED <<heap, scen, other, funs, maps, globals, stack, top, frames, frameCount,
                   ip, undefined, out, err, marks, last, home, stored>>

\* compile up to its first advance
compile_begin ==
    /\ phase = "host" /\ scen.kind = "parse"
    /\ parser' = advance(initCompiler(scen.src))
    /\ phase' = "parse"
    /\ UNCHANGED <<blk, result>>
    /\ ParseStep

\* an iteration of the top-level loop or of the loop of block that meets no '{'
loop_declaration ==
    /\ phase = "parse"
    /\ ~check(parser, "TOKEN_EOF") /\ ~check(parser, "TOKEN_LEFT_BRACE")
    /\ blk # <<>> => ~check(parser, "TOKEN_RIGHT_BRACE")
    /\ parser' = declaration(parser)
    /\ UNCHANGED <<phase, blk, result>>
    /\ ParseStep

\* an iteration that meets '{': match, beginScope, and the loop of block begins
block_begin ==
    /\ phase = "parse"
    /\ check(parser, "TOKEN_LEFT_BRACE")
    /\ parser' = beginScope(advance(parser))
    /\ blk' = Append(blk, parser.chunk.count)
    /\ UNCHANGED <<phase, result>>
    /\ ParseStep

\* the loop of block stops: consume '}', endScope, and the end of the
\* iteration that met the '{'
block_end ==
    /\ phase = "parse"
    /\ blk # <<>>
    /\ check(parser, "TOKEN_RIGHT_BRACE") \/ check(parser, "TOKEN_EOF")
    /\ parser' = declaration_sync(
                    statement_marked(
                       endScope(consume(parser, "TOKEN_RIGHT_BRACE", "Expect '}' after block.")),
                       blk[Len(blk)]))
    /\ blk' = SubSeq(blk, 1, Len(blk) - 1)
    /\ UNCHANGED <<phase, result>>
    /\ ParseStep

\* the top-level loop stops at EOF: endCompiler, and compile returns
compile_end ==
    /\ phase = "parse"
    /\ blk = <<>>
    /\ check(parser, "TOKEN_EOF")
    /\ parser' = endCompiler(advance(parser))
    /\ result' = IF parser'.hadError THEN "COMPILE_ERROR" ELSE "OK"
    /\ phase' = "done"
    /\ UNCHANGED blk
    /\ ParseStep

NextParse == compile_begin \/ loop_declaration \/ block_begin \/ block_end \/ compile_end

\* compile has not returned, and makes its next step
Proceeds == phase # "done" /\ hostCalls' = hostCalls + 1

\* compile runs on without waiting: while it has not returned, it makes
\* its next step
SpecParse == InitParse /\ [][NextParse]_vars /\ WF_hostCalls(Proceeds)

\* compile has a next step to make as long as it has not returned
CanProceed ==
    \/ phase = "host"
    \/ phase = "done"
    \/ /\ phase = "parse"
       /\ \/ check(parser, "TOKEN_LEFT_BRACE")
          \/ blk = <<>> /\ check(parser, "TOKEN_EOF")
          \/ blk # <<>> /\ (check(parser, "TOKEN_RIGHT_BRACE") \/ check(parser, "TOKEN_EOF"))
          \/ /\ ~check(parser, "TOKEN_EOF") /\ ~check(parser, "TOKEN_LEFT_BRACE")
             /\ blk # <<>> => ~check(parser, "TOKEN_RIGHT_BRACE")

\* the tokens compile has not consumed yet, the current one included
Remaining(p) ==
    (Len(p.toks) + 1 - p.pos) + (IF p.current.type = "TOKEN_EOF" THEN 0 ELSE 1)

\* every token kind the infix loop can stop at has an infix function
RulesComplete ==
    \A type \in TOKEN_TYPES :
       getRule(type).precedence >= PREC_ASSIGNMENT => getRule(type).infix # "NULL"

\* synchronize skipped real tokens only, and stopped at EOF, after a ';' or
\* before a token that begins a statement
SynchronizeStops(log) ==
    \A k \in 1..Len(log) :
       /\ log[k].ev = "skip" => log[k].name # "TOKEN_EOF"
       /\ log[k].ev = "resume" =>
             log[k].name = "TOKEN_EOF" \/ log[k].n = 1 \/ log[k].name \in SyncTokens

Skips(log) == Cardinality({ k \in 1..Len(log) : log[k].ev = "skip" })

\* C28: compile returns on every token stream: an iteration of the top-level
\* loop or of the loop of block consumes at least one token, the loops stop
\* at EOF (the loop of block at '}' too), every turn of synchronize consumes
\* a token or returns, and no null infix rule is called
C28_CompileTerminates ==
    /\ <>(phase = "done")
    /\ []( /\ CanProceed
           /\ phase = "done" => parser = compile(scen.src)
           /\ RulesComplete
           /\ ~parser.undefined
           /\ SynchronizeStops(parser.log)
           /\ phase # "host" =>
                 Skips(parser.log) + Remaining(parser) + Len(blk) <= Len(scen.src) )
    /\ [][ /\ (loop_declaration \/ block_begin) => Remaining(parser') < Remaining(parser)
           /\ block_end => /\ Remaining(parser') <= Remaining(parser)
                           /\ Len(blk') < Len(blk)
           /\ compile_end => Remaining(parser) = 0 ]_vars

\* compile has returned from a source with an open block and a syntax error
\* after which synchronize skipped tokens
C28_Witness ==
    /\ scen.kind = "parse" /\ phase = "done"
    /\ parser.hadError
    /\ Skips(parser.log) >= 2
    /\ \E k \in 1..Len(parser.log) : parser.log[k].ev = "begin"
    /\ \E k \in 1..Len(parser.log) :
          parser.log[k].ev = "error" /\ parser.log[k].name = "Expect '}' after block."

(***************************************************************************)
(* Closing.  The host clones the VM it created, closes the two in any      *)
(* order, and runs a script on the first VM as long as it has not closed   *)
(* it.  heap counts how many times the gc, the globals and the strings of  *)
(* vm_create have been freed.                                              *)
(***************************************************************************)
CloseMains ==
    { Fun("script", 0, Cat(<<g1, g2, I("RET")>>), POOL) : g1 \in GlobalOps, g2 \in GlobalOps }

InitClose ==
    /\ \E f \in CloseMains : scen = AsmScenario(f)
    /\ Created

VMs == {"from", "clone"}

\* the VM exists and has not been closed
Open(vm) == vm \notin heap.closed /\ (vm = "clone" => other.made)

\* vm_close(vm): tab_free and free of vm->globals and vm->strings, gc_free
\* and free of vm->gc, free(vm); the three pointers of a clone are those of
\* the VM it was cloned from, and freeing what has been freed is undefined
vm_close(vm) ==
    /\ heap' = [heap EXCEPT !.closed = @ \cup {vm}, !.frees = @ + 1]
    /\ undefined' = (undefined \/ heap.frees >= 1)

close ==
    /\ phase \in {"host", "done"}
    /\ \E vm \in VMs : Open(vm) /\ vm_close(vm)
    /\ UNCHANGED <<scen, parser, other, phase, hostCalls, funs, maps, globals, stack, top, frames,
                   frameCount, ip, result, out, err, marks, last, home, blk, stored>>

\* the host runs the script on the first VM
run_from == Open("from") /\ vm_run

NextClose ==
    \/ vm_clone
    \/ close
    \/ run_from
    \/ OP_CONST
    \/ OP_POP
    \/ OP_DEF
    \/ OP_GLD
    \/ OP_GST
    \/ OP_RET
    \/ Undefined

SpecClose == InitClose /\ [][NextClose]_vars

\* C29: closing the clone frees none of the gc, globals and strings it
\* shares, so that the VM it was cloned from goes on using them within
\* defined behaviour, and what is shared is freed at most once, also when
\* both VMs are closed
C29_CloseClone ==
    /\ heap.frees <= 1
    /\ ("clone" \in heap.closed /\ "from" \notin heap.closed) => heap.frees = 0
    /\ ~undefined

\* the first VM reaches a DEF, GLD or GST after the clone was closed
ClosedUnder ==
    /\ "clone" \in heap.closed /\ "from" \notin heap.closed
    /\ phase = "run" /\ frameCount >= 1 /\ InCode(ip)
    /\ Opcode \in {"DEF", "GLD", "GST"}

=============================================================================
